---------------------------- MODULE Spec2Model ----------------------------
(***************************************************************************)
(* A model of the energy-storage financial engine: the React hook          *)
(* useStorageCalculation (hooks/useStorageCalculation.ts) as generated by  *)
(* src/fix_storage.py, with its pure calculation modules.                  *)
(*                                                                         *)
(* Numbers.  The TypeScript code computes in IEEE doubles.  The model      *)
(* computes in exact rationals <<n, d>> (d > 0, lowest terms); every       *)
(* Precision.round / toFixed of the code is modelled as the rounding it    *)
(* performs.  Binary representation error of doubles is not modelled.      *)
(* The plant is scaled down (capacity 1e-4 MWh, i.e. 100 Wh) so that       *)
(* every intermediate value fits the model checker's integers; all other   *)
(* parameters keep realistic magnitudes.                                   *)
(***************************************************************************)
EXTENDS Integers, Sequences, FiniteSets, TLC

(***************************************************************************)
(* Exact rational arithmetic.  Each operation is a function of its         *)
(* arguments (so that it is computed from their values, once) with an      *)
(* operator in front of it.                                                *)
(***************************************************************************)
Abs(a) == IF a < 0 THEN -a ELSE a

Pair == Int \X Int

GcdF[p \in Pair] == IF p[2] = 0 THEN p[1] ELSE GcdF[<<p[2], p[1] % p[2]>>]
Gcd(a, b) == GcdF[<<a, b>>]

\* The rational n/d in lowest terms with a positive denominator (d # 0).
NormF[p \in Pair] ==
    LET g == GcdF[<<Abs(p[1]), Abs(p[2])>>]
    IN  IF p[2] < 0 THEN <<(-p[1]) \div g, (-p[2]) \div g>>
        ELSE <<p[1] \div g, p[2] \div g>>
R(n, d) == NormF[<<n, d>>]

I(n) == <<n, 1>>
Zero == <<0, 1>>
One == <<1, 1>>
Pct(p) == R(p, 100)

RNeg(x) == R(0 - x[1], x[2])

RAddF[p \in Pair \X Pair] ==
    LET x == p[1]
        y == p[2]
        g == GcdF[<<x[2], y[2]>>]
    IN  NormF[<<x[1] * (y[2] \div g) + y[1] * (x[2] \div g), (x[2] \div g) * y[2]>>]
RAdd(x, y) == RAddF[<<x, y>>]

RSub(x, y) == RAddF[<<x, RNeg(y)>>]

RMulF[p \in Pair \X Pair] ==
    LET x == p[1]
        y == p[2]
    IN  IF x[1] = 0 \/ y[1] = 0 THEN <<0, 1>>
        ELSE LET g1 == GcdF[<<Abs(x[1]), y[2]>>]
                 g2 == GcdF[<<Abs(y[1]), x[2]>>]
             IN  NormF[<<(x[1] \div g1) * (y[1] \div g2), (x[2] \div g2) * (y[2] \div g1)>>]
RMul(x, y) == RMulF[<<x, y>>]

\* x / y for y # 0.
RInvF[y \in Pair] == NormF[<<y[2], y[1]>>]
RDiv(x, y) == RMulF[<<x, RInvF[y]>>]

\* The sign of a/b - c/d (b, d > 0), by the continued-fraction expansions,
\* so that no product is formed.
CmpFrac[t \in Int \X Int \X Int \X Int] ==
    LET qa == t[1] \div t[2]
        qc == t[3] \div t[4]
        ra == t[1] % t[2]
        rc == t[3] % t[4]
    IN  IF qa # qc THEN (IF qa < qc THEN -1 ELSE 1)
        ELSE IF ra = 0 \/ rc = 0
             THEN (IF ra = rc THEN 0 ELSE IF ra = 0 THEN -1 ELSE 1)
             ELSE CmpFrac[<<t[4], rc, t[2], ra>>]

RCmpF[p \in Pair \X Pair] == CmpFrac[<<p[1][1], p[1][2], p[2][1], p[2][2]>>]
RCmp(x, y) == RCmpF[<<x, y>>]
RLt(x, y) == RCmpF[<<x, y>>] < 0
RLe(x, y) == RCmpF[<<x, y>>] <= 0
RGt(x, y) == RCmpF[<<x, y>>] > 0
RGe(x, y) == RCmpF[<<x, y>>] >= 0
RMaxF[p \in Pair \X Pair] == IF RCmpF[p] < 0 THEN p[2] ELSE p[1]
RMinF[p \in Pair \X Pair] == IF RCmpF[p] > 0 THEN p[2] ELSE p[1]
RMax(x, y) == RMaxF[<<x, y>>]
RMin(x, y) == RMinF[<<x, y>>]
RAbsF[x \in Pair] == <<Abs(x[1]), x[2]>>
RAbs(x) == RAbsF[x]

RPowF[p \in Pair \X Int] ==
    IF p[2] <= 0 THEN <<1, 1>> ELSE RMulF[<<p[1], RPowF[<<p[1], p[2] - 1>>]>>]
RPow(x, k) == RPowF[<<x, k>>]

Pow10F[k \in Int] == IF k <= 0 THEN 1 ELSE 10 * Pow10F[k - 1]
Pow10(k) == Pow10F[k]

RSumF[s \in Seq(Pair)] == IF s = <<>> THEN <<0, 1>> ELSE RAddF[<<Head(s), RSumF[Tail(s)]>>]
RSum(s) == RSumF[s]

\* Math.round: the nearest integer, a tie going towards +infinity.
MathRoundF[x \in Pair] ==
    (x[1] \div x[2]) + (IF 2 * (x[1] % x[2]) >= x[2] THEN 1 ELSE 0)
MathRound(x) == MathRoundF[x]

(***************************************************************************)
(* 1. Configuration constants (FINANCIAL_CONSTANTS)                        *)
(***************************************************************************)
FIRST_YEAR == R(4, 100)
ANNUAL == R(25, 1000)
MIN_SOH == R(60, 100)
POST_AUG_SOH == R(95, 100)
MAX_LOAN_TERM == 10

(***************************************************************************)
(* 2. Utilities                                                            *)
(***************************************************************************)
\* Precision.round(n, digits) = Math.round(n * 10^digits) / 10^digits
PrecisionRound(x, digits) ==
    R(MathRound(RMul(x, I(Pow10(digits)))), Pow10(digits))

yuan(x) == PrecisionRound(x, 2)
calc(x) == PrecisionRound(x, 4)

\* Number.prototype.toFixed(digits): the nearest decimal with that many
\* digits, a tie going away from zero.  The printed string is modelled as
\* the decimal number it denotes.
toFixedF[p \in Pair \X Int] ==
    LET m == MathRound(RMul(RAbs(p[1]), I(Pow10(p[2]))))
    IN  R(IF p[1][1] < 0 THEN 0 - m ELSE m, Pow10(p[2]))
toFixed(x, digits) == toFixedF[<<x, digits>>]

\* A value the code computes by dividing by zero (Infinity or NaN).
NonFinite == <<0, 0>>
IsFinite(x) == x[2] # 0

\* validateInputs: the messages pushed to `errors`, in order; the function
\* throws one Error carrying all of them iff the list is not empty.  Each
\* message is named here by the rule that pushes it.
ValidationMessages(in) ==
    (IF RLe(in.capacity, Zero) THEN <<"capacity">> ELSE <<>>)
    \o (IF in.duration_hours <= 0 THEN <<"duration_hours">> ELSE <<>>)
    \o (IF in.cycles <= 0 THEN <<"cycles">> ELSE <<>>)
    \o (IF in.run_days <= 0 \/ in.run_days > 366 THEN <<"run_days">> ELSE <<>>)
    \o (IF in.debt_ratio < 0 \/ in.debt_ratio > 100 THEN <<"debt_ratio">> ELSE <<>>)
    \o (IF in.dod <= 0 \/ in.dod > 100 THEN <<"dod">> ELSE <<>>)
    \o (IF in.charge_eff <= 0 \/ in.discharge_eff <= 0 THEN <<"efficiency">> ELSE <<>>)
    \o (IF in.sub_decline < 0 \/ in.sub_decline > 100 THEN <<"sub_decline">> ELSE <<>>)

\* A validation that stops at the first violated rule.
validateFirstOnly(in) ==
    IF ValidationMessages(in) = <<>> THEN <<>> ELSE <<Head(ValidationMessages(in))>>

validateInputs(in) == ValidationMessages(in)

(***************************************************************************)
(* 3. Pure calculation modules                                             *)
(***************************************************************************)
Degradation(year) == IF year = 1 THEN FIRST_YEAR ELSE ANNUAL

\* A year-end SOH without the floor.
YearEndSOHNoFloor(currentSOH, year) == RSub(currentSOH, Degradation(year))

YearEndSOH(currentSOH, year) == RMax(MIN_SOH, RSub(currentSOH, Degradation(year)))

calculatePhysics(capacityWh, currentSOH, dod, cycles, runDays, chargeEff, dischargeEff, year) ==
    LET yearEndSOH == YearEndSOH(currentSOH, year)
        avgSOH == RDiv(RAdd(currentSOH, yearEndSOH), I(2))
        usableCapacityDC == RMul(RMul(capacityWh, avgSOH), dod)
        dailyDischargeAC == RMul(RMul(usableCapacityDC, dischargeEff), I(cycles))
        annualDischargeKWh == calc(RDiv(RMul(dailyDischargeAC, I(runDays)), I(1000)))
        dailyChargeAC == RMul(RDiv(usableCapacityDC, chargeEff), I(cycles))
        annualChargeKWh == calc(RDiv(RMul(dailyChargeAC, I(runDays)), I(1000)))
        lossKWh == calc(RSub(annualChargeKWh, annualDischargeKWh))
    IN  [annualChargeKWh |-> annualChargeKWh,
         annualDischargeKWh |-> annualDischargeKWh,
         lossKWh |-> lossKWh,
         avgSOH |-> avgSOH,
         nextSOH |-> yearEndSOH]

calculateRevenue(p, year) ==
    LET elecRevGross == yuan(RMul(p.annualDischargeKWh, p.spread))
        declineFactor == RPow(RSub(One, Pct(p.subDecline)), year - 1)
        currentRate == RMul(p.subPrice, declineFactor)
        kFactor == RMin(One, RDiv(I(p.durationHours), I(6)))
        subRevGross ==
            IF year <= p.subYears
            THEN IF p.subMode = "energy"
                 THEN yuan(RMul(p.annualDischargeKWh, currentRate))
                 ELSE yuan(RMul(RMul(p.powerKW, currentRate), kFactor))
            ELSE Zero
        auxRevGross == yuan(RMul(p.powerKW, p.auxPrice))
        totalRevGross == yuan(RAdd(RAdd(elecRevGross, subRevGross), auxRevGross))
        totalRevNet == yuan(RDiv(totalRevGross, RAdd(One, p.vatRate)))
        outputVAT == yuan(RSub(totalRevGross, totalRevNet))
    IN  [elecRevGross |-> elecRevGross, subRevGross |-> subRevGross,
         auxRevGross |-> auxRevGross, totalRevGross |-> totalRevGross,
         totalRevNet |-> totalRevNet, outputVAT |-> outputVAT]

calculateOperatingCosts(capacityWh, opexRate, lossKWh, priceValley, vatRate) ==
    LET opexGross == yuan(RMul(capacityWh, opexRate))
        opexNet == yuan(RDiv(opexGross, RAdd(One, vatRate)))
        opexVAT == yuan(RSub(opexGross, opexNet))
        lossCostGross == yuan(RMul(lossKWh, priceValley))
        lossCostNet == yuan(RDiv(lossCostGross, RAdd(One, vatRate)))
        lossVAT == yuan(RSub(lossCostGross, lossCostNet))
    IN  [opexGross |-> opexGross, opexNet |-> opexNet, opexVAT |-> opexVAT,
         lossCostGross |-> lossCostGross, lossCostNet |-> lossCostNet,
         lossVAT |-> lossVAT]

\* A guard that lets an asset depreciate for one year more than its life.
DepreciatesOneMore(asset) == asset.age <= asset.life

\* The guard of the depreciation loop: the asset still depreciates.
Depreciates(asset) == asset.age < asset.life

\* One asset's depreciation for the year (the loop body's `dep`, 0 when the
\* guard fails).
AssetDep(asset) ==
    IF Depreciates(asset)
    THEN yuan(RDiv(RMul(asset.value, RSub(One, asset.residualRate)), I(asset.life)))
    ELSE Zero

\* The list the loop rebuilds: every asset is pushed, one year older.
UpdatedAssets(assets) ==
    [i \in 1..Len(assets) |-> [assets[i] EXCEPT !.age = @ + 1]]

calculateDepreciation(assets) ==
    [annualDep |-> yuan(RSum([i \in 1..Len(assets) |-> AssetDep(assets[i])])),
     updatedAssets |-> UpdatedAssets(assets)]

\* A loan service that goes on paying while a principal of at most 1 is left.
LoanServiceNoThreshold(remainingDebt, annualPMT, loanRate, year, loanTerm) ==
    IF year > loanTerm
    THEN [interest |-> Zero, principal |-> Zero, debtService |-> Zero,
          remainingDebt |-> remainingDebt]
    ELSE LET interest == yuan(RMul(remainingDebt, loanRate))
             payment == RMin(annualPMT, RAdd(remainingDebt, interest))
             principal == yuan(RSub(payment, interest))
             newRemainingDebt == yuan(RSub(remainingDebt, principal))
         IN  [interest |-> interest, principal |-> principal,
              debtService |-> payment, remainingDebt |-> newRemainingDebt]

\* A loan service that always pays the scheduled payment.
LoanServiceScheduledOnly(remainingDebt, annualPMT, loanRate, year, loanTerm) ==
    IF year > loanTerm \/ RLe(remainingDebt, One)
    THEN [interest |-> Zero, principal |-> Zero, debtService |-> Zero,
          remainingDebt |-> remainingDebt]
    ELSE LET interest == yuan(RMul(remainingDebt, loanRate))
             principal == yuan(RSub(annualPMT, interest))
         IN  [interest |-> interest, principal |-> principal,
              debtService |-> annualPMT,
              remainingDebt |-> yuan(RSub(remainingDebt, principal))]

calculateLoanService(remainingDebt, annualPMT, loanRate, year, loanTerm) ==
    IF year > loanTerm \/ RLe(remainingDebt, One)
    THEN [interest |-> Zero, principal |-> Zero, debtService |-> Zero,
          remainingDebt |-> remainingDebt]
    ELSE LET interest == yuan(RMul(remainingDebt, loanRate))
             payment == RMin(annualPMT, RAdd(remainingDebt, interest))
             principal == yuan(RSub(payment, interest))
             newRemainingDebt == yuan(RSub(remainingDebt, principal))
         IN  [interest |-> interest, principal |-> principal,
              debtService |-> payment, remainingDebt |-> newRemainingDebt]

\* A settlement that charges the whole payable to a positive credit, however
\* small the credit is.
VATSettlementOverdraw(outputVAT, inputVAT, existingVATCredit) ==
    LET vatPayable == yuan(RSub(outputVAT, inputVAT))
    IN  IF RGt(existingVATCredit, Zero)
        THEN <<Zero, yuan(RSub(existingVATCredit, vatPayable))>>
        ELSE IF RLt(vatPayable, Zero)
             THEN <<Zero, yuan(RAbs(vatPayable))>>
             ELSE <<vatPayable, existingVATCredit>>

\* A settlement that does not carry a deficit forward as a new credit.
VATSettlementNoCarry(outputVAT, inputVAT, existingVATCredit) ==
    LET vatPayable == yuan(RSub(outputVAT, inputVAT))
    IN  IF RGt(existingVATCredit, Zero)
        THEN IF RGe(existingVATCredit, vatPayable)
             THEN <<Zero, yuan(RSub(existingVATCredit, vatPayable))>>
             ELSE <<yuan(RSub(vatPayable, existingVATCredit)), Zero>>
        ELSE <<vatPayable, existingVATCredit>>

\* The VAT part of calculateTaxes: <<vatPayable, remainingVAT>> after the
\* credit carry-forward branches.
VATSettlement(outputVAT, inputVAT, existingVATCredit) ==
    LET vatPayable == yuan(RSub(outputVAT, inputVAT))
    IN  IF RGt(existingVATCredit, Zero)
        THEN IF RGe(existingVATCredit, vatPayable)
             THEN <<Zero, yuan(RSub(existingVATCredit, vatPayable))>>
             ELSE <<yuan(RSub(vatPayable, existingVATCredit)), Zero>>
        ELSE IF RLt(vatPayable, Zero)
             THEN <<Zero, yuan(RAbs(vatPayable))>>
             ELSE <<vatPayable, existingVATCredit>>

\* Taxes whose taxable income is not floored at zero.
calculateTaxesNoFloor(revenueNet, costs, depreciation, interest, outputVAT, inputVAT, existingVATCredit, taxRate, surchargeRate) ==
    LET vat == VATSettlement(outputVAT, inputVAT, existingVATCredit)
        vatPayable == vat[1]
        remainingVAT == vat[2]
        surcharge == yuan(RMul(vatPayable, surchargeRate))
        ebit == yuan(RSub(RSub(RSub(revenueNet, costs.opexNet), costs.lossCostNet),
                          depreciation))
        ebitda == yuan(RAdd(ebit, depreciation))
        taxableIncome == yuan(RSub(RSub(ebit, interest), surcharge))
        incomeTax == yuan(RMul(taxableIncome, taxRate))
        netProfit == yuan(RSub(RSub(RSub(ebit, interest), surcharge), incomeTax))
    IN  [vatPayable |-> vatPayable, remainingVATCredit |-> remainingVAT,
         newVATCredit |-> remainingVAT, surcharge |-> surcharge,
         taxableIncome |-> taxableIncome, incomeTax |-> incomeTax,
         netProfit |-> netProfit, ebit |-> ebit, ebitda |-> ebitda]

calculateTaxes(revenueNet, costs, depreciation, interest, outputVAT, inputVAT, existingVATCredit, taxRate, surchargeRate) ==
    LET vat == VATSettlement(outputVAT, inputVAT, existingVATCredit)
        vatPayable == vat[1]
        remainingVAT == vat[2]
        surcharge == yuan(RMul(vatPayable, surchargeRate))
        ebit == yuan(RSub(RSub(RSub(revenueNet, costs.opexNet), costs.lossCostNet),
                          depreciation))
        ebitda == yuan(RAdd(ebit, depreciation))
        taxableIncome == RMax(Zero, yuan(RSub(RSub(ebit, interest), surcharge)))
        incomeTax == yuan(RMul(taxableIncome, taxRate))
        netProfit == yuan(RSub(RSub(RSub(ebit, interest), surcharge), incomeTax))
    IN  [vatPayable |-> vatPayable, remainingVATCredit |-> remainingVAT,
         newVATCredit |-> remainingVAT, surcharge |-> surcharge,
         taxableIncome |-> taxableIncome, incomeTax |-> incomeTax,
         netProfit |-> netProfit, ebit |-> ebit, ebitda |-> ebitda]

\* createCalculationDetail's SOH logic: the start-of-year SOH rebuilt from
\* the year index of the record and the inputs.
DetailYearStartSOH(year, in) ==
    LET raw == IF year = 1 THEN One
               ELSE IF year = in.aug_year /\ in.aug_year > 0 THEN R(95, 100)
               ELSE IF in.aug_year > 0 /\ year > in.aug_year
                    THEN RSub(R(95, 100),
                              RMul(I(year - in.aug_year - 1), R(25, 1000)))
               ELSE RSub(RSub(One, R(4, 100)), RMul(I(year - 2), R(25, 1000)))
    IN  RMax(R(60, 100), raw)

\* Its year-end SOH and the average it calls currentSOH.
DetailYearEndSOH(year, in) ==
    RMax(R(60, 100),
         RSub(DetailYearStartSOH(year, in),
              IF year = 1 THEN R(4, 100) ELSE R(25, 1000)))

DetailCurrentSOH(year, in) ==
    RDiv(RAdd(DetailYearStartSOH(year, in), DetailYearEndSOH(year, in)), I(2))

\* The iteration bound of calculateIRR's Newton loop.
IRR_MAX_ITER == 100

\* npv and derivative of one pass of calculateIRR's inner loop at `guess`;
\* t runs from 0, cf[t + 1] is the code's cf[t].
IrrPass(cf, guess) ==
    LET x == RAdd(One, guess)
    IN  [npv |-> RSum([k \in 1..Len(cf) |-> RDiv(cf[k], RPow(x, k - 1))]),
         derivative |->
            RNeg(RSum([k \in 1..Len(cf) |->
                         RDiv(RMul(I(k - 1), cf[k]), RPow(x, k))]))]

\* The Newton loop from iteration i on: the value returned, the guess the
\* loop held when it stopped, and why it stopped ("converged": the return
\* inside the loop; "flat": the break on a small derivative; "exhausted":
\* the loop ran out of iterations).
RECURSIVE IrrFrom(_, _, _)
IrrFrom(cf, guess, i) ==
    IF i >= IRR_MAX_ITER
    THEN [value |-> guess, guess |-> guess, stop |-> "exhausted"]
    ELSE LET pass == IrrPass(cf, guess)
         IN  IF RLt(RAbs(pass.npv), R(1, 100))
             THEN [value |-> guess, guess |-> guess, stop |-> "converged"]
             ELSE IF RLt(RAbs(pass.derivative), R(1, 10000))
             THEN [value |-> guess, guess |-> guess, stop |-> "flat"]
             ELSE IrrFrom(cf, RSub(guess, RDiv(pass.npv, pass.derivative)), i + 1)

\* calculateIRR with the reason it stopped.
IrrRun(cf) ==
    IF Len(cf) = 0
    THEN [value |-> Zero, guess |-> Zero, stop |-> "empty"]
    ELSE IrrFrom(cf, R(1, 10), 0)

calculateIRR(cf) == IrrRun(cf).value

\* A net present value that leaves the year-0 entry out.
NpvSkipsYearZero(rate, cf) ==
    RSum([k \in 2..Len(cf) |-> RDiv(cf[k], RPow(RAdd(One, rate), k - 1))])

calculateNPV(rate, cf) ==
    RSum([k \in 1..Len(cf) |-> RDiv(cf[k], RPow(RAdd(One, rate), k - 1))])

\* FINANCIAL_CONSTANTS.DISCOUNT_RATE.
DISCOUNT_RATE == R(8, 100)

\* npvCost and npvGen: the discounted cost and generation series.
npvCost(costSeries) == calculateNPV(DISCOUNT_RATE, costSeries)

npvGen(generationSeries) == calculateNPV(DISCOUNT_RATE, generationSeries)

\* calculatePayback: the interpolated index of the first entry at which the
\* running sum becomes positive, 99 when it never does.
RECURSIVE PaybackFrom(_, _, _)
PaybackFrom(cf, i, cum) ==
    IF i > Len(cf) THEN I(99)
    ELSE IF RGt(RAdd(cum, cf[i]), Zero)
         THEN RMax(Zero, RAdd(I(i - 2), RDiv(RAbs(cum), cf[i])))
         ELSE PaybackFrom(cf, i + 1, RAdd(cum, cf[i]))

\* A payback in whole years: the index before the crossing, no interpolation.
RECURSIVE WholeYearsFrom(_, _, _)
WholeYearsFrom(cf, i, cum) ==
    IF i > Len(cf) THEN I(99)
    ELSE IF RGt(RAdd(cum, cf[i]), Zero)
         THEN RMax(Zero, I(i - 2))
         ELSE WholeYearsFrom(cf, i + 1, RAdd(cum, cf[i]))

PaybackWholeYears(equityCF) == WholeYearsFrom(equityCF, 1, Zero)

\* A payback interpolated backwards from the crossing year's end.
RECURSIVE BackwardsFrom(_, _, _)
BackwardsFrom(cf, i, cum) ==
    IF i > Len(cf) THEN I(99)
    ELSE IF RGt(RAdd(cum, cf[i]), Zero)
         THEN RMax(Zero, RSub(I(i - 1), RDiv(RAbs(cum), cf[i])))
         ELSE BackwardsFrom(cf, i + 1, RAdd(cum, cf[i]))

PaybackBackwards(equityCF) == BackwardsFrom(equityCF, 1, Zero)

calculatePayback(equityCF) == PaybackFrom(equityCF, 1, Zero)

\* A payment that covers the interest only.
PMTInterestOnly(principal, rate, periods) == RMul(principal, rate)

calculatePMT(principal, rate, periods) ==
    IF rate = Zero
    THEN IF periods = 0 THEN NonFinite ELSE RDiv(principal, I(periods))
    ELSE LET f == RPow(RAdd(One, rate), periods)
         IN  IF f = One THEN NonFinite
             ELSE RDiv(RMul(RMul(principal, rate), f), RSub(f, One))


(***************************************************************************)
(* 5. The hook useStorageCalculation                                       *)
(***************************************************************************)
VARIABLES
    inputs,         \* useState<InputParams>
    result,         \* useState<CalculationResult | null>
    kpi,            \* useState<KpiResult | null>
    error,          \* useState<string | null>
    pc,             \* where calculate() is: "idle" (not called since the last
                    \* input change), "loop" (inside the yearly loop),
                    \* "done" (returned normally), "failed" (returned from catch)
    setup,          \* calculate's values fixed before the loop: params and the
                    \* investment totals, debt, equity, annualPMT
    year,           \* the loop variable
    currentSOH, remainingVAT, remainingDebt, assets,
    equityCF, projectCF, costCF, generationCF,
    rows, cumEquityCF, minDSCR, stats,
    yr,             \* the locals of the loop body in the iteration just run
    call, ret,      \* a direct call of one pure module and what it returned
    wait, immediate,    \* debounce(func, wait, immediate): the closure's arguments
    timeout,            \* the closure's timer handle, or null
    timers,             \* the runtime's pending timers (setTimeout/clearTimeout)
    timerCount,         \* timer handles given out so far
    now,                \* the clock, in ms
    invoked             \* the invocations of func: when and with which arguments

hookVars == <<inputs, result, kpi, error>>
loopVars == <<setup, year, currentSOH, remainingVAT, remainingDebt, assets,
              equityCF, projectCF, costCF, generationCF, rows, cumEquityCF,
              minDSCR, stats, yr>>
callVars == <<call, ret>>
debounceVars == <<wait, immediate, timeout, timers, timerCount, now, invoked>>
vars == <<hookVars, pc, loopVars, callVars, debounceVars>>

Null == [null |-> TRUE]

\* x || d of JavaScript for a number x: d when x is 0 (or NaN).
OrDefault(x, d) == IF x = 0 THEN d ELSE x

\* The `-` a row shows for a DSCR of 999.
Dash == <<"-">>

\* safeInputs of calculate.
SafeInputs(in) ==
    [in EXCEPT !.tax_preferential_years = OrDefault(@, 0),
               !.tax_preferential_rate = OrDefault(@, 15),
               !.tax_rate = OrDefault(@, 25)]

Params(in) ==
    [MWh |-> in.capacity,
     hours |-> in.duration_hours,
     MW |-> RDiv(in.capacity, I(in.duration_hours)),
     Wh |-> RMul(in.capacity, I(1000000)),
     kW |-> RMul(RDiv(in.capacity, I(in.duration_hours)), I(1000)),
     chargeEff |-> Pct(in.charge_eff),
     dischargeEff |-> Pct(in.discharge_eff),
     rte |-> RMul(Pct(in.charge_eff), Pct(in.discharge_eff)),
     dod |-> Pct(in.dod),
     years |-> in.years,
     cycles |-> in.cycles,
     runDays |-> in.run_days,
     vatRate |-> Pct(in.vat_rate),
     taxRate |-> Pct(in.tax_rate),
     residualRate |-> Pct(in.residual_rate),
     debtRatio |-> Pct(in.debt_ratio),
     loanRate |-> Pct(in.loan_rate),
     loanTerm |-> IF MAX_LOAN_TERM < in.years THEN MAX_LOAN_TERM ELSE in.years]

\* totalInvGross, totalInvNet and inputVAT, itemized or lump-sum.
InvestmentTotals(in, params) ==
    LET items == in.investmentItems
        gross == IF Len(items) > 0
                 THEN RSum([i \in 1..Len(items) |-> items[i].amount])
                 ELSE RMul(params.Wh, in.capex)
        net == IF Len(items) > 0
               THEN RSum([i \in 1..Len(items) |->
                            RDiv(items[i].amount,
                                 RAdd(One, Pct(OrDefault(items[i].taxRate, 13))))])
               ELSE RDiv(gross, RAdd(One, params.vatRate))
    IN  [totalInvGross |-> gross, totalInvNet |-> net, inputVAT |-> RSub(gross, net)]

Setup(in) ==
    LET params == Params(in)
        inv == InvestmentTotals(in, params)
        debt == yuan(RMul(inv.totalInvGross, params.debtRatio))
        equity == yuan(RMul(inv.totalInvGross, RSub(One, params.debtRatio)))
    IN  [params |-> params,
         totalInvGross |-> inv.totalInvGross,
         totalInvNet |-> inv.totalInvNet,
         inputVAT |-> inv.inputVAT,
         debt |-> debt,
         equity |-> equity,
         annualPMT |-> calculatePMT(debt, params.loanRate, params.loanTerm)]

InitialStats(su) ==
    [total_charge_kwh |-> Zero, total_discharge_kwh |-> Zero, total_loss_kwh |-> Zero,
     total_elec_rev |-> Zero, total_sub_rev |-> Zero, total_aux_rev |-> Zero,
     total_rev |-> Zero, total_opex |-> Zero, total_loss_cost |-> Zero,
     total_dep |-> Zero, total_interest |-> Zero, total_vat |-> Zero,
     total_surcharge |-> Zero, total_income_tax |-> Zero, total_tax |-> Zero,
     total_net_profit |-> Zero, total_principal |-> Zero, min_dscr |-> I(999),
     total_inv_gross |-> su.totalInvGross, total_inv_net |-> su.totalInvNet,
     equity |-> su.equity, debt |-> su.debt]

\* The values of calculate's locals before it is called (none exist).
\* No debounced function has been created.
NoDebounce ==
    /\ wait = 0 /\ immediate = FALSE /\ timeout = Null
    /\ timers = {} /\ timerCount = 0 /\ now = 0 /\ invoked = <<>>

NoLocals ==
    /\ setup = Null /\ year = 0
    /\ currentSOH = Zero /\ remainingVAT = Zero /\ remainingDebt = Zero
    /\ assets = <<>>
    /\ equityCF = <<>> /\ projectCF = <<>> /\ costCF = <<>> /\ generationCF = <<>>
    /\ rows = <<>> /\ cumEquityCF = Zero /\ minDSCR = Zero
    /\ stats = Null /\ yr = Null

ClearLocals ==
    /\ setup' = Null /\ year' = 0
    /\ currentSOH' = Zero /\ remainingVAT' = Zero /\ remainingDebt' = Zero
    /\ assets' = <<>>
    /\ equityCF' = <<>> /\ projectCF' = <<>> /\ costCF' = <<>> /\ generationCF' = <<>>
    /\ rows' = <<>> /\ cumEquityCF' = Zero /\ minDSCR' = Zero
    /\ stats' = Null /\ yr' = Null

\* The Error validateInputs throws, as the catch block stores its message.
ErrorMessage(messages) == [prefix |-> "validation failed", lines |-> messages]

\* A catch block that leaves the earlier result and KPI in place.
CatchKeepsResult(message, oldResult, oldKpi) == <<message, oldResult, oldKpi>>

\* The catch block of calculate: <<error, result, kpi>> it sets.
CatchBlock(message, oldResult, oldKpi) == <<message, Null, Null>>

\* calculate, up to the throw of validateInputs: the catch block runs and
\* the function returns.
CalculateRejected ==
    /\ pc # "loop"
    /\ validateInputs(SafeInputs(inputs)) # <<>>
    /\ LET c == CatchBlock(ErrorMessage(validateInputs(SafeInputs(inputs))), result, kpi)
       IN  error' = c[1] /\ result' = c[2] /\ kpi' = c[3]
    /\ pc' = "failed"
    /\ ClearLocals
    /\ UNCHANGED <<inputs, callVars, debounceVars>>

\* calculate, from its entry to the head of the yearly loop.
CalculateBegin ==
    /\ pc # "loop"
    /\ validateInputs(SafeInputs(inputs)) = <<>>
    /\ LET su == Setup(inputs)
       IN  /\ setup' = su
           /\ assets' = <<[value |-> su.totalInvNet, life |-> inputs.dep_years,
                           age |-> 0, residualRate |-> su.params.residualRate]>>
           /\ currentSOH' = One
           /\ remainingVAT' = su.inputVAT
           /\ remainingDebt' = su.debt
           /\ equityCF' = <<RNeg(su.equity)>>
           /\ projectCF' = <<RNeg(su.totalInvNet)>>
           /\ costCF' = <<RNeg(su.totalInvNet)>>
           /\ generationCF' = <<Zero>>
           /\ rows' = <<>>
           /\ cumEquityCF' = RNeg(su.equity)
           /\ minDSCR' = I(999)
           /\ stats' = InitialStats(su)
    /\ year' = 1
    /\ yr' = Null
    /\ pc' = "loop"
    /\ UNCHANGED <<hookVars, callVars, debounceVars>>


\* A loop that stops one year early.
LoopStopsEarly(y, years) == y < years

\* The loop condition: year <= params.years.
LoopContinues(y, years) == y <= years

\* year === inputs.aug_year && inputs.aug_year > 0
IsAugYear(y, in) == y = in.aug_year /\ in.aug_year > 0

\* currentSOH as calculatePhysics receives it: reset in the augmentation year.
StartSOH(y, in, carried) == IF IsAugYear(y, in) THEN POST_AUG_SOH ELSE carried

\* The amounts a row shows: x / 10000 with two decimals.
Wan(x) == toFixed(RDiv(x, I(10000)), 2)

\* The augmentation block at the head of the loop body: the amounts, the
\* credit and asset list it leaves, and the SOH the year starts with.
\* An augmentation whose input VAT never reaches the VAT credit.
AugStepWithoutCredit(y, in, params, credit, assetList, carried) ==
    IF IsAugYear(y, in)
    THEN LET augCost == RMul(params.Wh, in.aug_price)
             augNet == RDiv(augCost, RAdd(One, params.vatRate))
             augVAT == RSub(augCost, augNet)
         IN  [augCost |-> augCost, augNet |-> augNet, augVAT |-> augVAT,
              vatCredit |-> credit,
              assets |-> Append(assetList,
                                [value |-> augNet, life |-> in.aug_dep_years,
                                 age |-> 0, residualRate |-> params.residualRate]),
              sohStart |-> StartSOH(y, in, carried)]
    ELSE [augCost |-> Zero, augNet |-> Zero, augVAT |-> Zero,
          vatCredit |-> credit, assets |-> assetList,
          sohStart |-> StartSOH(y, in, carried)]

AugStep(y, in, params, credit, assetList, carried) ==
    IF IsAugYear(y, in)
    THEN LET augCost == RMul(params.Wh, in.aug_price)
             augNet == RDiv(augCost, RAdd(One, params.vatRate))
             augVAT == RSub(augCost, augNet)
         IN  [augCost |-> augCost, augNet |-> augNet, augVAT |-> augVAT,
              vatCredit |-> RAdd(credit, augVAT),
              assets |-> Append(assetList,
                                [value |-> augNet, life |-> in.aug_dep_years,
                                 age |-> 0, residualRate |-> params.residualRate]),
              sohStart |-> StartSOH(y, in, carried)]
    ELSE [augCost |-> Zero, augNet |-> Zero, augVAT |-> Zero,
          vatCredit |-> credit, assets |-> assetList,
          sohStart |-> StartSOH(y, in, carried)]

\* currentTaxRate of the year.
CurrentTaxRate(y, in, params) ==
    LET prefYears == OrDefault(in.tax_preferential_years, 0)
        prefRate == Pct(OrDefault(in.tax_preferential_rate, 15))
    IN  IF prefYears > 0 /\ y <= prefYears THEN prefRate ELSE params.taxRate

\* A DSCR that is 0 in a year without debt service.
DscrZeroWithoutService(loan, taxes, annualDep) ==
    IF RGt(loan.debtService, Zero)
    THEN RDiv(RAdd(RAdd(taxes.netProfit, annualDep), loan.interest), loan.debtService)
    ELSE Zero

\* dscr of the year.
Dscr(loan, taxes, annualDep) ==
    IF RGt(loan.debtService, Zero)
    THEN RDiv(RAdd(RAdd(taxes.netProfit, annualDep), loan.interest), loan.debtService)
    ELSE I(999)

\* residualValue of the year, over the asset list as the year leaves it.
ResidualValue(y, params, assetList) ==
    IF y = params.years
    THEN RSum([i \in 1..Len(assetList) |->
                 RMul(assetList[i].value, assetList[i].residualRate)])
    ELSE Zero

\* cf, projectCFYear and yearCostLCOE of the year.
\* Cash flows whose equity flow pays the augmentation net of VAT.
CashFlowsNetAugmentation(a, costs, annualDep, loan, taxes, taxRate, residualValue) ==
    [cf |-> RAdd(RSub(RSub(RAdd(taxes.netProfit, annualDep), loan.principal),
                      a.augNet),
                 residualValue),
     projectCFYear |->
         RAdd(RSub(RAdd(RMul(RSub(taxes.ebit, taxes.surcharge), RSub(One, taxRate)),
                        annualDep),
                   a.augNet),
              residualValue),
     yearCostLCOE |-> RSub(RAdd(RAdd(costs.opexNet, costs.lossCostNet), a.augNet),
                           residualValue)]

CashFlows(a, costs, annualDep, loan, taxes, taxRate, residualValue) ==
    [cf |-> RAdd(RSub(RSub(RAdd(taxes.netProfit, annualDep), loan.principal),
                      a.augCost),
                 residualValue),
     projectCFYear |->
         RAdd(RSub(RAdd(RMul(RSub(taxes.ebit, taxes.surcharge), RSub(One, taxRate)),
                        annualDep),
                   a.augNet),
              residualValue),
     yearCostLCOE |-> RSub(RAdd(RAdd(costs.opexNet, costs.lossCostNet), a.augNet),
                           residualValue)]

\* The locals of one iteration of the yearly loop, from the state it starts
\* in.  Each statement's value is bound before the next one reads it.
IsLoopBody(b, y, in, su) ==
    \E a \in {AugStep(y, in, su.params, remainingVAT, assets, currentSOH)} :
    \E physics \in {calculatePhysics(su.params.Wh, a.sohStart, su.params.dod,
                                     su.params.cycles, su.params.runDays,
                                     su.params.chargeEff, su.params.dischargeEff, y)} :
    \E revenue \in {calculateRevenue(
                      [annualDischargeKWh |-> physics.annualDischargeKWh,
                       spread |-> in.spread, auxPrice |-> in.aux_price,
                       powerKW |-> su.params.kW, durationHours |-> su.params.hours,
                       subMode |-> in.sub_mode, subPrice |-> in.sub_price,
                       subYears |-> in.sub_years, subDecline |-> in.sub_decline,
                       vatRate |-> su.params.vatRate], y)} :
    \E costs \in {calculateOperatingCosts(su.params.Wh, in.opex, physics.lossKWh,
                                          in.price_valley, su.params.vatRate)} :
    \E dep \in {calculateDepreciation(a.assets)} :
    \E loan \in {calculateLoanService(remainingDebt, su.annualPMT, su.params.loanRate,
                                      y, su.params.loanTerm)} :
    \E taxRate \in {CurrentTaxRate(y, in, su.params)} :
    \E taxes \in {calculateTaxes(revenue.totalRevNet,
                                 [opexNet |-> costs.opexNet,
                                  lossCostNet |-> costs.lossCostNet],
                                 dep.annualDep, loan.interest, revenue.outputVAT,
                                 RAdd(costs.opexVAT, costs.lossVAT), a.vatCredit,
                                 taxRate, Pct(in.surcharge_rate))} :
    \E residualValue \in {ResidualValue(y, su.params, dep.updatedAssets)} :
    \E flows \in {CashFlows(a, costs, dep.annualDep, loan, taxes, taxRate,
                            residualValue)} :
      b = [year |-> y, sohCarried |-> currentSOH, sohStart |-> a.sohStart,
           augCost |-> a.augCost, augNet |-> a.augNet, augVAT |-> a.augVAT,
           vatCredit |-> a.vatCredit,
           physics |-> physics, revenue |-> revenue, costs |-> costs,
           annualDep |-> dep.annualDep, updatedAssets |-> dep.updatedAssets,
           loan |-> loan, currentTaxRate |-> taxRate, taxes |-> taxes,
           dscr |-> Dscr(loan, taxes, dep.annualDep),
           residualValue |-> residualValue, cf |-> flows.cf,
           projectCFYear |-> flows.projectCFYear,
           yearCostLCOE |-> flows.yearCostLCOE]

\* The row pushed for the year.
Row(b, cum) ==
    [y |-> b.year,
     soh |-> toFixed(RMul(b.sohStart, I(100)), 1),
     charge_kwh |-> Wan(b.physics.annualChargeKWh),
     discharge_kwh |-> Wan(b.physics.annualDischargeKWh),
     loss_kwh |-> Wan(b.physics.lossKWh),
     elec_rev |-> Wan(b.revenue.elecRevGross),
     sub_rev |-> Wan(b.revenue.subRevGross),
     aux_rev |-> Wan(b.revenue.auxRevGross),
     total_rev |-> Wan(b.revenue.totalRevGross),
     opex |-> Wan(b.costs.opexGross),
     loss_cost |-> Wan(b.costs.lossCostGross),
     dep |-> Wan(b.annualDep),
     interest |-> Wan(b.loan.interest),
     vat_pay |-> Wan(b.taxes.vatPayable),
     surcharge |-> Wan(b.taxes.surcharge),
     income_tax |-> Wan(b.taxes.incomeTax),
     total_tax |-> Wan(RAdd(RAdd(b.taxes.vatPayable, b.taxes.surcharge),
                            b.taxes.incomeTax)),
     ebit |-> Wan(b.taxes.ebit),
     ebitda |-> Wan(b.taxes.ebitda),
     net_profit |-> Wan(b.taxes.netProfit),
     principal |-> Wan(b.loan.principal),
     cf |-> Wan(b.cf),
     cum_cf |-> Wan(cum),
     dscr |-> IF b.dscr = I(999) THEN Dash ELSE toFixed(b.dscr, 2)]

AddStats(st, b) ==
    [st EXCEPT
       !.total_charge_kwh = RAdd(@, b.physics.annualChargeKWh),
       !.total_discharge_kwh = RAdd(@, b.physics.annualDischargeKWh),
       !.total_loss_kwh = RAdd(@, b.physics.lossKWh),
       !.total_elec_rev = RAdd(@, b.revenue.elecRevGross),
       !.total_sub_rev = RAdd(@, b.revenue.subRevGross),
       !.total_aux_rev = RAdd(@, b.revenue.auxRevGross),
       !.total_rev = RAdd(@, b.revenue.totalRevGross),
       !.total_opex = RAdd(@, b.costs.opexGross),
       !.total_loss_cost = RAdd(@, b.costs.lossCostGross),
       !.total_dep = RAdd(@, b.annualDep),
       !.total_interest = RAdd(@, b.loan.interest),
       !.total_vat = RAdd(@, b.taxes.vatPayable),
       !.total_surcharge = RAdd(@, b.taxes.surcharge),
       !.total_income_tax = RAdd(@, b.taxes.incomeTax),
       !.total_tax = RAdd(@, RAdd(RAdd(b.taxes.vatPayable, b.taxes.surcharge),
                                  b.taxes.incomeTax)),
       !.total_net_profit = RAdd(@, b.taxes.netProfit),
       !.total_principal = RAdd(@, b.loan.principal)]

\* One iteration of the yearly loop.
YearStep ==
    /\ pc = "loop"
    /\ LoopContinues(year, setup.params.years)
    /\ IsLoopBody(yr', year, inputs, setup)
    /\ remainingVAT' = yr'.taxes.newVATCredit
    /\ assets' = yr'.updatedAssets
    /\ remainingDebt' = yr'.loan.remainingDebt
    /\ stats' = AddStats(stats, yr')
    /\ minDSCR' = IF year <= setup.params.loanTerm /\ RLt(yr'.dscr, minDSCR)
                  THEN yr'.dscr ELSE minDSCR
    /\ cumEquityCF' = RAdd(cumEquityCF, yr'.cf)
    /\ equityCF' = Append(equityCF, yuan(yr'.cf))
    /\ projectCF' = Append(projectCF, yuan(yr'.projectCFYear))
    /\ costCF' = Append(costCF, yuan(yr'.yearCostLCOE))
    /\ generationCF' = Append(generationCF, yr'.physics.annualDischargeKWh)
    /\ rows' = Append(rows, Row(yr', cumEquityCF'))
    /\ currentSOH' = yr'.physics.nextSOH
    /\ year' = year + 1
    /\ UNCHANGED <<hookVars, pc, setup, callVars, debounceVars>>

\* A result that leaves the year records out.
CalcResultNoRows(eq, proj, rs, st) ==
    [equity_cf |-> eq, project_cf |-> proj, rows |-> <<>>, stats |-> st]

\* The CalculationResult calculate builds.
CalcResult(eq, proj, rs, st) ==
    [equity_cf |-> eq, project_cf |-> proj, rows |-> rs, stats |-> st]

\* calculate, from the exit of the loop to its return.  Of the KpiResult
\* the model keeps the fields that need no discounting or root finding.
CalculateEnd ==
    /\ pc = "loop"
    /\ ~LoopContinues(year, setup.params.years)
    /\ LET finalStats == [stats EXCEPT !.min_dscr =
                            IF minDSCR = I(999) THEN Zero ELSE minDSCR]
       IN  /\ stats' = finalStats
           /\ result' = CalcResult(equityCF, projectCF, rows, finalStats)
           /\ kpi' = [roi |-> IF setup.totalInvGross = Zero THEN NonFinite
                              ELSE RMul(RDiv(finalStats.total_net_profit,
                                             setup.totalInvGross), I(100)),
                      payback |-> calculatePayback(equityCF),
                      project_payback |-> calculatePayback(projectCF),
                      min_dscr |-> finalStats.min_dscr,
                      total_profit |-> RDiv(finalStats.total_net_profit, I(10000))]
           /\ error' = Null
    /\ pc' = "done"
    /\ UNCHANGED <<inputs, setup, year, currentSOH, remainingVAT, remainingDebt,
                   assets, equityCF, projectCF, costCF, generationCF, rows,
                   cumEquityCF, minDSCR, yr, callVars, debounceVars>>


\* updateInput(key, value): one input changes and the error is cleared.
\* calculate's locals of an earlier call are gone by then.
\* An update that also drops the result, leaving the KPIs in place.
UpdateInputDropsResult(key, value) ==
    /\ pc # "loop"
    /\ inputs' = [inputs EXCEPT ![key] = value]
    /\ error' = Null
    /\ result' = Null
    /\ pc' = "idle"
    /\ ClearLocals
    /\ UNCHANGED <<kpi, callVars, debounceVars>>

UpdateInput(key, value) ==
    /\ pc # "loop"
    /\ inputs' = [inputs EXCEPT ![key] = value]
    /\ error' = Null
    /\ pc' = "idle"
    /\ ClearLocals
    /\ UNCHANGED <<result, kpi, callVars, debounceVars>>

(***************************************************************************)
(* Bounds and input sets                                                   *)
(***************************************************************************)
MaxYears == 3       \* short horizons are 0..MaxYears
LongYears == 17     \* one long horizon, on which SOH reaches its floor
MaxAugYear == 4     \* augmentation years are 0 (none)..MaxAugYear
MaxLife == 3        \* depreciation lives are 1..MaxLife

\* The hook's initial inputs, with the plant scaled to 100 Wh and a loan
\* rate whose powers stay small.
BaseInputs ==
    [years |-> 2, sub_mode |-> "energy", sub_price |-> R(35, 100), sub_years |-> 10,
     sub_decline |-> 0, aux_price |-> Zero, capacity |-> R(1, 10000),
     duration_hours |-> 2, charge_eff |-> 94, discharge_eff |-> 94, dod |-> 90,
     price_valley |-> R(30, 100), capex |-> R(120, 100), spread |-> R(70, 100),
     opex |-> R(2, 100), cycles |-> 2, run_days |-> 330, dep_years |-> 2,
     debt_ratio |-> 70, loan_rate |-> 50, vat_rate |-> 13, tax_rate |-> 25,
     surcharge_rate |-> 12, tax_preferential_years |-> 0,
     tax_preferential_rate |-> 15, aug_year |-> 0, aug_price |-> R(60, 100),
     aug_dep_years |-> 2, residual_rate |-> 5, constructionPeriod |-> 12,
     investmentItems |-> <<>>]

\* BaseInputs with the fields of `over` replaced.
With(over) ==
    [k \in DOMAIN BaseInputs |-> IF k \in DOMAIN over THEN over[k] ELSE BaseInputs[k]]

YearsSet == (0..MaxYears) \cup {LongYears}

\* The parameter sets of the engine runs: every combination on the short
\* horizons, the long horizon with the default prices, and parameter sets
\* that validation rejects.
InputsShort ==
    { With(o) : o \in
        [years : 0..MaxYears,
         aug_year : 0..MaxAugYear,
         dep_years : 1..MaxLife,
         aug_dep_years : {1, 2},
         capex : {R(1, 100), R(120, 100)},
         spread : {R(1, 100), R(70, 100)},
         sub_years : {1, 10},
         debt_ratio : {0, 70}] }

InputsLong ==
    { With(o) : o \in
        [years : {LongYears},
         aug_year : 0..MaxAugYear,
         dep_years : 1..MaxLife,
         debt_ratio : {0, 70}] }

InputsInvalid ==
    { With(o) : o \in
        [years : {0, 2},
         capacity : {Zero, R(1, 10000)},
         run_days : {330, 367},
         debt_ratio : {-1, 101}] }

\* Parameter sets that validation accepts although the investment or the
\* augmentation is worth nothing, or the whole investment is borrowed.
InputsDegenerate ==
    { With(o) : o \in
        [years : {0, 2},
         capex : {Zero},
         aug_year : {0, 1},
         aug_price : {Zero, R(60, 100)},
         debt_ratio : {0, 100}] }

\* Loans at rates and amounts whose interest does not come out in whole
\* cents, on the short horizons.
InputsLoan ==
    { With(o) : o \in
        [years : 1..MaxYears,
         loan_rate : {0, 20, 25},
         capex : {R(77, 100), R(120, 100)},
         debt_ratio : {45, 70, 100}] }

\* Tax settings of a plant that makes a taxable profit: no window, a window
\* shorter than and as long as the horizon, preferential and standard rates
\* of 0% and above.
InputsTax ==
    { With(o) : o \in
        [years : {2},
         capex : {R(60, 100)},
         tax_preferential_years : {0, 1, 2},
         tax_preferential_rate : {0, 10, 15},
         tax_rate : {0, 25},
         debt_ratio : {0, 70}] }

\* An investment item of the itemized list: its gross amount and its own
\* VAT rate in percent.
Item(amount, taxRate) == [amount |-> amount, taxRate |-> taxRate]

\* Itemized lists whose amounts sum to the 120 yuan of the lump-sum
\* investment (100 Wh at 1.20 per Wh), at the project's VAT rate, at other
\* rates and at 0%.
ItemLists ==
    { <<Item(I(120), 13)>>,
      <<Item(I(120), 6)>>,
      <<Item(I(120), 0)>>,
      <<Item(I(120), 9)>>,
      <<Item(I(60), 13), Item(I(60), 25)>>,
      <<Item(I(80), 25), Item(I(40), 0)>>,
      <<Item(I(50), 13), Item(I(45), 25), Item(I(25), 0)>> }

InputsItemized ==
    { With(o) : o \in
        [years : {1, 2},
         investmentItems : ItemLists,
         debt_ratio : {0, 70}] }

\* A small loan on a plant with a wide price spread: the year's cash covers
\* the debt service a thousand times and more.
InputsHighYield ==
    { With(o) : o \in
        [years : {1, 2},
         spread : {I(40)},
         debt_ratio : {1},
         loan_rate : {0, 20},
         dep_years : {1, 2}] }

InputsRun ==
    InputsShort \cup InputsLong \cup InputsInvalid \cup InputsDegenerate \cup InputsLoan
    \cup InputsTax \cup InputsItemized \cup InputsHighYield

InitWith(S) ==
    /\ inputs \in S
    /\ result = Null /\ kpi = Null /\ error = Null
    /\ pc = "idle"
    /\ NoLocals /\ NoDebounce
    /\ call = Null /\ ret = Null

Init == InitWith(InputsRun)

Next ==
    \/ CalculateRejected
    \/ CalculateBegin
    \/ YearStep
    \/ CalculateEnd

Spec == Init /\ [][Next]_vars

\* calculate is a synchronous function: once it has entered the loop it
\* runs every iteration and returns.
InputsComplete ==
    InputsDegenerate \cup InputsInvalid
    \cup { With(o) : o \in
             [years : 0..MaxYears, aug_year : 0..MaxAugYear, debt_ratio : {0, 70}] }

SpecRun ==
    InitWith(InputsComplete) /\ [][Next]_vars
    /\ WF_vars(YearStep) /\ WF_vars(CalculateEnd)

(***************************************************************************)
(* Validation at the boundaries of every rule                              *)
(***************************************************************************)
InputsValidate ==
    { With(o) : o \in
        [capacity : {Zero, R(1, 10000)},
         duration_hours : {0, 2},
         cycles : {0, 2},
         run_days : {0, 330, 366, 367},
         debt_ratio : {-1, 0, 100, 101},
         dod : {0, 90, 100, 101},
         charge_eff : {0, 94},
         discharge_eff : {0, 94},
         sub_decline : {-1, 0, 100, 101}] }

SpecValidate == InitWith(InputsValidate) /\ [][Next]_vars

(***************************************************************************)
(* The hook over several calls: inputs change between calls of calculate   *)
(***************************************************************************)
HookUpdates ==
    [key : {"capacity"}, value : {Zero, R(1, 10000)}]
    \cup [key : {"years"}, value : {0, 1, 2}]
    \cup [key : {"debt_ratio"}, value : {0, 70, 101}]
    \cup [key : {"run_days"}, value : {330, 367}]

NextHook ==
    \/ Next
    \/ \E u \in HookUpdates : UpdateInput(u.key, u.value)

SpecHook == InitWith({BaseInputs}) /\ [][NextHook]_vars

(***************************************************************************)
(* calculateTaxes called on its own                                        *)
(***************************************************************************)
MaxVatSteps == 3    \* VAT amounts are 0, 1.25, .. MaxVatSteps * 1.25 yuan

\* Amounts in whole cents, as the yearly output and input VAT are.
VatAmounts == { R(125 * k, 100) : k \in 0..MaxVatSteps }

\* The input VAT within a gross amount of 10k yuan at 13%, as calculate
\* computes the credit of the investment and of the augmentation: it is
\* not rounded.
InvestmentVat(k) == RSub(I(10 * k), RDiv(I(10 * k), RAdd(One, Pct(13))))

OutputVatAmounts == VatAmounts \cup {R(10, 3)}
CreditAmounts == VatAmounts \cup { InvestmentVat(k) : k \in 1..MaxVatSteps }

TaxCalls ==
    [fn : {"calculateTaxes"}, outputVAT : OutputVatAmounts, inputVAT : VatAmounts,
     existingVATCredit : CreditAmounts]

InitTaxes ==
    /\ inputs = BaseInputs
    /\ result = Null /\ kpi = Null /\ error = Null
    /\ pc = "idle"
    /\ NoLocals /\ NoDebounce
    /\ call \in TaxCalls /\ ret = Null

\* calculateTaxes(...) is called with the amounts of `call` and returns.
CallCalculateTaxes ==
    /\ call # Null /\ call.fn = "calculateTaxes" /\ ret = Null
    /\ ret' = calculateTaxes(I(100), [opexNet |-> I(10), lossCostNet |-> I(5)],
                             I(20), I(3), call.outputVAT, call.inputVAT,
                             call.existingVATCredit, Pct(25), Pct(12))
    /\ UNCHANGED <<hookVars, pc, loopVars, call, debounceVars>>

NextTaxes == CallCalculateTaxes

SpecTaxes == InitTaxes /\ [][NextTaxes]_vars

(***************************************************************************)
(* calculatePayback called on its own                                      *)
(***************************************************************************)
MaxPaybackYears == 3    \* series hold a year-0 entry and 0..MaxPaybackYears years

\* Year-0 entries: an outlay, none, and an entry that is already positive.
YearZeroAmounts == {I(-100), I(-50), Zero, I(50)}

\* Yearly cash flows, negative years included.
YearAmounts == {I(-60), Zero, I(40), I(120)}

PaybackSeries ==
    {<<>>}
    \cup UNION { { <<c0>> \o ys : ys \in [1..n -> YearAmounts] } :
                   c0 \in YearZeroAmounts, n \in 0..MaxPaybackYears }

InitPayback ==
    /\ inputs = BaseInputs
    /\ result = Null /\ kpi = Null /\ error = Null
    /\ pc = "idle"
    /\ NoLocals /\ NoDebounce
    /\ call \in [fn : {"calculatePayback"}, cf : PaybackSeries] /\ ret = Null

\* calculatePayback(cf) is called with the series of `call` and returns.
CallCalculatePayback ==
    /\ call # Null /\ call.fn = "calculatePayback" /\ ret = Null
    /\ ret' = [value |-> calculatePayback(call.cf)]
    /\ UNCHANGED <<hookVars, pc, loopVars, call, debounceVars>>

NextPayback == CallCalculatePayback

SpecPayback == InitPayback /\ [][NextPayback]_vars

(***************************************************************************)
(* calculateNPV called on its own                                          *)
(***************************************************************************)
\* Discount rates: none, 25% and 100%.
NpvRates == {Zero, R(1, 4), One}

InitNPV ==
    /\ inputs = BaseInputs
    /\ result = Null /\ kpi = Null /\ error = Null
    /\ pc = "idle"
    /\ NoLocals /\ NoDebounce
    /\ call \in [fn : {"calculateNPV"}, rate : NpvRates, cf : PaybackSeries]
    /\ ret = Null

\* calculateNPV(rate, cf) is called with the arguments of `call` and returns.
CallCalculateNPV ==
    /\ call # Null /\ call.fn = "calculateNPV" /\ ret = Null
    /\ ret' = [value |-> calculateNPV(call.rate, call.cf)]
    /\ UNCHANGED <<hookVars, pc, loopVars, call, debounceVars>>

NextNPV == CallCalculateNPV

SpecNPV == InitNPV /\ [][NextNPV]_vars

(***************************************************************************)
(* calculateIRR called on its own                                          *)
(***************************************************************************)
MaxIrrScale == 10   \* cash flows are multiples 1..MaxIrrScale of a unit

\* Series on which the Newton loop stops within three passes: the empty
\* series; a year-0 outlay alone, as calculate builds it for a horizon of
\* 0; an outlay with a return of exactly 10% or of nothing; a series that
\* has no sign change; one whose root, 21%, is found in the third pass.
IrrSeries ==
    {<<>>}
    \cup { <<I(-10 * k)>> : k \in 0..MaxIrrScale }
    \cup { <<I(-10 * k), I(11 * k)>> : k \in 1..MaxIrrScale }
    \cup { <<I(-10 * k), Zero>> : k \in 1..MaxIrrScale }
    \cup { <<I(-10 * k), Zero, R(121 * k, 10)>> : k \in 1..MaxIrrScale }
    \cup { <<I(100 * k), One>> : k \in 1..MaxIrrScale }
    \cup { <<I(-100), I(121)>> }

InitIRR ==
    /\ inputs = BaseInputs
    /\ result = Null /\ kpi = Null /\ error = Null
    /\ pc = "idle"
    /\ NoLocals /\ NoDebounce
    /\ call \in [fn : {"calculateIRR"}, cf : IrrSeries] /\ ret = Null

\* calculateIRR(cf) is called with the series of `call` and returns.
CallCalculateIRR ==
    /\ call # Null /\ call.fn = "calculateIRR" /\ ret = Null
    /\ ret' = [value |-> calculateIRR(call.cf)]
    /\ UNCHANGED <<hookVars, pc, loopVars, call, debounceVars>>

NextIRR == CallCalculateIRR

SpecIRR == InitIRR /\ [][NextIRR]_vars

(***************************************************************************)
(* debounce(func, wait, immediate) and the runtime's timers                *)
(***************************************************************************)
MaxClock == 6       \* the clock runs from 0 to MaxClock ms
MaxTimers == 4      \* calls of the debounced function in one behaviour
MaxWait == 2        \* wait is 1..MaxWait ms

DebounceArgs == {"a", "b"}

InitDebounce ==
    /\ inputs = BaseInputs
    /\ result = Null /\ kpi = Null /\ error = Null
    /\ pc = "idle"
    /\ NoLocals
    /\ call = Null /\ ret = Null
    /\ wait \in 1..MaxWait /\ immediate \in BOOLEAN
    /\ timeout = Null /\ timers = {} /\ timerCount = 0
    /\ now = 0 /\ invoked = <<>>

\* A call of the debounced function that leaves the pending timer running.
DebouncedNoClear(args) ==
    /\ timerCount < MaxTimers /\ now + wait <= MaxClock
    /\ LET callNow == immediate /\ timeout = Null
           timer == [id |-> timerCount + 1, due |-> now + wait, args |-> args]
       IN  /\ timers' = timers \cup {timer}
           /\ timeout' = [id |-> timer.id]
           /\ timerCount' = timerCount + 1
           /\ invoked' = IF callNow THEN Append(invoked, [at |-> now, args |-> args])
                         ELSE invoked
    /\ call' = [fn |-> "debounced", n |-> timerCount + 1, args |-> args, at |-> now]
    /\ UNCHANGED <<hookVars, pc, loopVars, ret, wait, immediate, now>>

\* The function debounce returns, called with `args`: a pending timer is
\* cleared, a new one is set to run `later` after wait ms, and func is
\* called at once only if immediate is set and no timer was pending.
Debounced(args) ==
    /\ timerCount < MaxTimers /\ now + wait <= MaxClock
    /\ LET callNow == immediate /\ timeout = Null
           cleared == IF timeout # Null THEN {t \in timers : t.id # timeout.id}
                      ELSE timers
           timer == [id |-> timerCount + 1, due |-> now + wait, args |-> args]
       IN  /\ timers' = cleared \cup {timer}
           /\ timeout' = [id |-> timer.id]
           /\ timerCount' = timerCount + 1
           /\ invoked' = IF callNow THEN Append(invoked, [at |-> now, args |-> args])
                         ELSE invoked
    /\ call' = [fn |-> "debounced", n |-> timerCount + 1, args |-> args, at |-> now]
    /\ UNCHANGED <<hookVars, pc, loopVars, ret, wait, immediate, now>>

\* later, run by the timer t when it is due: the handle is reset and, unless
\* immediate is set, func is called with the arguments of the call that set
\* the timer.
Later(t) ==
    /\ t \in timers /\ t.due <= now
    /\ timers' = timers \ {t}
    /\ timeout' = Null
    /\ invoked' = IF ~immediate THEN Append(invoked, [at |-> now, args |-> t.args])
                  ELSE invoked
    /\ UNCHANGED <<hookVars, pc, loopVars, callVars, wait, immediate, timerCount, now>>

\* A millisecond passes; a timer that is due runs before the next one does.
Tick ==
    /\ now < MaxClock
    /\ \A t \in timers : t.due > now
    /\ now' = now + 1
    /\ UNCHANGED <<hookVars, pc, loopVars, callVars, wait, immediate, timeout,
                   timers, timerCount, invoked>>

NextDebounce ==
    \/ \E args \in DebounceArgs : Debounced(args)
    \/ \E t \in timers : Later(t)
    \/ Tick

\* The runtime keeps the clock running and runs a timer that is due.
SpecDebounce ==
    InitDebounce /\ [][NextDebounce]_vars
    /\ WF_vars(Tick) /\ WF_vars(\E t \in timers : Later(t))


(***************************************************************************)
(* Properties                                                              *)
(***************************************************************************)
\* calculate has passed validation and built its locals.
Running == pc \in {"loop", "done"}
\* At least one iteration of the loop has run; yr holds its locals.
YearRun == Running /\ yr # Null

\* C1: at the end of every simulated year (and before the first one) the
\* remaining VAT credit is >= 0, and so is the credit handed to
\* calculateTaxes after the augmentation input VAT is added.
C1_VatCreditNonNegative ==
    Running =>
        /\ RGe(remainingVAT, Zero)
        /\ yr # Null => /\ RGe(yr.vatCredit, Zero)
                        /\ RGe(yr.taxes.newVATCredit, Zero)
                        /\ RGe(yr.taxes.vatPayable, Zero)

\* The augmentation year has run: its input VAT was added to the credit,
\* the year's output VAT exceeded its input VAT, and the credit absorbed
\* the difference.
C1_Witness ==
    /\ YearRun
    /\ IsAugYear(yr.year, inputs)
    /\ RGt(yr.augVAT, Zero)
    /\ RGt(yr.revenue.outputVAT, RAdd(yr.costs.opexVAT, yr.costs.lossVAT))
    /\ yr.taxes.vatPayable = Zero
    /\ RGt(remainingVAT, Zero)

\* C3: after a successful run with horizon N, rows holds N records with
\* y = 1..N in order, and the four series hold N+1 entries each, the
\* year-0 entry first.
C3_RowsAndSeries ==
    pc = "done" =>
        LET N == inputs.years
        IN  /\ Len(rows) = N
            /\ \A i \in 1..Len(rows) : rows[i].y = i
            /\ Len(equityCF) = N + 1 /\ equityCF[1] = RNeg(setup.equity)
            /\ Len(projectCF) = N + 1 /\ projectCF[1] = RNeg(setup.totalInvNet)
            /\ Len(costCF) = N + 1 /\ costCF[1] = RNeg(setup.totalInvNet)
            /\ Len(generationCF) = N + 1 /\ generationCF[1] = Zero
            /\ result.rows = rows

C3_Witness == pc = "done" /\ inputs.years = LongYears /\ Len(rows) = LongYears

\* Outside the augmentation year a year starts with the SOH the year
\* before ended with, which is not above the SOH that year started with.
SohNonIncreasing ==
    YearRun =>
        /\ ~IsAugYear(yr.year, inputs) => yr.sohStart = yr.sohCarried
        /\ RLe(yr.physics.nextSOH, yr.sohStart)
        /\ \A i \in 1..(Len(rows) - 1) :
              ~IsAugYear(i + 1, inputs) => RLe(rows[i + 1].soh, rows[i].soh)

\* In the augmentation year the reset does not lower the SOH the year
\* would otherwise have started with.
SohResetIsUpward ==
    YearRun => (IsAugYear(yr.year, inputs) => RGe(yr.sohStart, yr.sohCarried))

\* C7 (the claim as stated): from one year to the next the start-of-year
\* SOH never increases, except in the augmentation year, and there the
\* reset to 95% does not lower the SOH carried into the year, whichever
\* year the augmentation is in.
C7_SohMonotoneWithUpwardReset == SohNonIncreasing /\ SohResetIsUpward

\* C8: the SOH carried into a year, the year-end SOH calculatePhysics
\* returns and the average SOH it uses are all >= MIN_SOH.
C8_SohFloor ==
    Running =>
        /\ RGe(currentSOH, MIN_SOH)
        /\ yr # Null => /\ RGe(yr.sohCarried, MIN_SOH)
                        /\ RGe(yr.sohStart, MIN_SOH)
                        /\ RGe(yr.physics.nextSOH, MIN_SOH)
                        /\ RGe(yr.physics.avgSOH, MIN_SOH)

\* A year in which the floor binds: without it the year would have ended
\* below MIN_SOH.
C8_Witness ==
    /\ YearRun
    /\ yr.physics.nextSOH = MIN_SOH
    /\ RLt(RSub(yr.sohStart, Degradation(yr.year)), MIN_SOH)

\* C9 (the claim as stated, in its weakest reading): after a year's
\* depreciation step no vintage is left in the list whose age had already
\* reached its life when the step ran.
C9_ExpiredVintagesDropped ==
    Running => \A i \in 1..Len(assets) : assets[i].age - 1 < assets[i].life


\* The yearly amount of a vintage: V * (1 - r) / L to the cent.
VintageAmount(V, r, L) == yuan(RDiv(RMul(V, RSub(One, r)), I(L)))

\* The number of years, up to and including year y, in which a vintage
\* created in year c with life L is within its life: years c .. c+L-1.
YearsInLife(y, c, L) ==
    IF y < c THEN 0 ELSE IF y - c + 1 > L THEN L ELSE y - c + 1

InLife(y, c, L) == IF c <= y /\ y < c + L THEN 1 ELSE 0

\* The net value of the augmentation vintage, from the inputs.
AugNetValue == RDiv(RMul(setup.params.Wh, inputs.aug_price),
                    RAdd(One, setup.params.vatRate))

\* C10: a vintage (V, r, L) contributes the same amount, V*(1-r)/L to the
\* cent, in each of the L years starting with the year it is created and
\* nothing afterwards: the year's depreciation and the running total are
\* the sums of these contributions over the base vintage (created in year 1)
\* and the augmentation vintage (created in the augmentation year), and L
\* such amounts differ from V*(1-r) by at most half a cent per year.
C10_StraightLineSchedule ==
    YearRun =>
        LET y == yr.year
            r == setup.params.residualRate
            LB == inputs.dep_years
            VB == setup.totalInvNet
            dB == VintageAmount(VB, r, LB)
            hasAug == inputs.aug_year >= 1 /\ inputs.aug_year <= y
            cA == inputs.aug_year
            LA == inputs.aug_dep_years
            dA == IF hasAug THEN VintageAmount(AugNetValue, r, LA) ELSE Zero
        IN  /\ yr.annualDep =
                 RAdd(RMul(dB, I(InLife(y, 1, LB))),
                      RMul(dA, I(IF hasAug THEN InLife(y, cA, LA) ELSE 0)))
            /\ stats.total_dep =
                 RAdd(RMul(dB, I(YearsInLife(y, 1, LB))),
                      RMul(dA, I(IF hasAug THEN YearsInLife(y, cA, LA) ELSE 0)))
            /\ RLe(RAbs(RSub(RMul(dB, I(LB)), RMul(VB, RSub(One, r)))), R(LB, 200))
            /\ hasAug =>
                 RLe(RAbs(RSub(RMul(dA, I(LA)), RMul(AugNetValue, RSub(One, r)))),
                     R(LA, 200))
            /\ (pc = "done" /\ ~hasAug /\ LB <= inputs.years) =>
                 RLe(RAbs(RSub(stats.total_dep, RMul(VB, RSub(One, r)))), R(LB, 200))

\* A finished run in which both vintages were created and ran through
\* their whole lives before the horizon ended.
C10_Witness ==
    /\ pc = "done" /\ yr # Null
    /\ inputs.dep_years < inputs.years
    /\ inputs.aug_year >= 1
    /\ inputs.aug_year + inputs.aug_dep_years - 1 < inputs.years
    /\ yr.annualDep = Zero
    /\ RGt(stats.total_dep, Zero)


\* calculateTaxes has returned from a direct call.
TaxesReturned == ret # Null /\ call # Null /\ call.fn = "calculateTaxes"

\* C2 (the claim as stated): for credit c >= 0 and raw payable
\* p = output VAT - input VAT, calculateTaxes returns exactly (0, c - p) if
\* c > 0 and c >= p; (p - c, 0) if c > 0 and c < p; (0, -p) if c = 0 and
\* p < 0; (p, c) otherwise.
C2_FourBranchesExact ==
    TaxesReturned =>
        LET c == call.existingVATCredit
            p == RSub(call.outputVAT, call.inputVAT)
        IN  RGe(c, Zero) =>
              <<ret.vatPayable, ret.remainingVATCredit>> =
                 IF RGt(c, Zero) /\ RGe(c, p) THEN <<Zero, RSub(c, p)>>
                 ELSE IF RGt(c, Zero) /\ RLt(c, p) THEN <<RSub(p, c), Zero>>
                 ELSE IF c = Zero /\ RLt(p, Zero) THEN <<Zero, RNeg(p)>>
                 ELSE <<p, c>>

\* C2 (amended): the same four branches, where p is output VAT - input VAT
\* rounded to the cent and the differences c - p and p - c are rounded to
\* the cent as well.
C2_FourBranchesToTheCent ==
    TaxesReturned =>
        LET c == call.existingVATCredit
            p == yuan(RSub(call.outputVAT, call.inputVAT))
        IN  RGe(c, Zero) =>
              <<ret.vatPayable, ret.remainingVATCredit>> =
                 IF RGt(c, Zero) /\ RGe(c, p) THEN <<Zero, yuan(RSub(c, p))>>
                 ELSE IF RGt(c, Zero) /\ RLt(c, p) THEN <<yuan(RSub(p, c)), Zero>>
                 ELSE IF c = Zero /\ RLt(p, Zero) THEN <<Zero, RNeg(p)>>
                 ELSE <<p, c>>

\* A call with an unrounded positive credit smaller than the payable has
\* returned: the credit is used up and the payable is reduced by it.
C2_Witness ==
    /\ TaxesReturned
    /\ yuan(call.existingVATCredit) # call.existingVATCredit
    /\ RGt(call.existingVATCredit, Zero)
    /\ RLt(call.existingVATCredit, RSub(call.outputVAT, call.inputVAT))
    /\ ret.remainingVATCredit = Zero
    /\ RGt(ret.vatPayable, Zero)


\* The rules of validation, as the specification lists them.
RuleViolated(rule, in) ==
    CASE rule = "capacity" -> RLe(in.capacity, Zero)
      [] rule = "duration_hours" -> in.duration_hours <= 0
      [] rule = "cycles" -> in.cycles <= 0
      [] rule = "run_days" -> ~(0 < in.run_days /\ in.run_days <= 366)
      [] rule = "debt_ratio" -> ~(0 <= in.debt_ratio /\ in.debt_ratio <= 100)
      [] rule = "dod" -> ~(0 < in.dod /\ in.dod <= 100)
      [] rule = "efficiency" -> ~(in.charge_eff > 0 /\ in.discharge_eff > 0)
      [] rule = "sub_decline" -> ~(0 <= in.sub_decline /\ in.sub_decline <= 100)

Rules == {"capacity", "duration_hours", "cycles", "run_days", "debt_ratio",
          "dod", "efficiency", "sub_decline"}

ViolatedRules(in) == { rule \in Rules : RuleViolated(rule, in) }

\* C4: calculate is rejected by validation exactly when at least one rule
\* is violated, and the error it raises lists one message for every
\* violated rule and no other message.
C4_RejectsAndListsEveryViolation ==
    /\ pc = "failed" =>
          /\ ViolatedRules(inputs) # {}
          /\ { error.lines[i] : i \in 1..Len(error.lines) } = ViolatedRules(inputs)
          /\ Len(error.lines) = Cardinality(ViolatedRules(inputs))
    /\ Running => ViolatedRules(inputs) = {}

\* A rejection in which every rule is violated, both efficiencies included.
C4_Witness ==
    /\ pc = "failed"
    /\ Len(error.lines) = Cardinality(Rules)
    /\ inputs.charge_eff <= 0 /\ inputs.discharge_eff <= 0

\* C5: a call of calculate on inputs that fail validation does not enter
\* the yearly loop and returns with result = null, kpi = null and an error,
\* whatever result and KPI were in place before.
C5_RejectionLeavesNoResult ==
    [][ (validateInputs(SafeInputs(inputs)) # <<>> /\ pc' # "idle") =>
            /\ pc' = "failed"
            /\ result' = Null /\ kpi' = Null /\ error' # Null
            /\ year' = 0 /\ rows' = <<>> /\ yr' = Null ]_vars

\* An earlier run has left a result in place and the inputs have since
\* been changed to ones that fail validation: calculate is about to be
\* rejected.
C5_Witness ==
    /\ result # Null /\ kpi # Null
    /\ pc = "idle"
    /\ validateInputs(SafeInputs(inputs)) # <<>>
    /\ ENABLED CalculateRejected

CompleteResult ==
    /\ pc = "failed" => validateInputs(SafeInputs(inputs)) # <<>>
    /\ Running => validateInputs(SafeInputs(inputs)) = <<>>
    /\ pc = "done" =>
          /\ error = Null
          /\ result # Null /\ kpi # Null
          /\ DOMAIN result = {"equity_cf", "project_cf", "rows", "stats"}
          /\ Len(result.rows) = inputs.years
          /\ Len(result.equity_cf) = inputs.years + 1
          /\ Len(result.project_cf) = inputs.years + 1
          /\ Len(costCF) = inputs.years + 1
          /\ Len(generationCF) = inputs.years + 1

SurvivingResidual(assetList, back) ==
    RSum([i \in 1..Len(assetList) |->
            IF assetList[i].age - back < assetList[i].life
            THEN RMul(assetList[i].value, assetList[i].residualRate)
            ELSE Zero])

\* C11 (the claim as stated): the residual value of the final year is the
\* sum of net value * residual rate over the vintages still surviving (age
\* below life) in the final year, whether the age is read at the beginning
\* or at the end of that year; a vintage fully depreciated before the final
\* year adds nothing.  In every other year the residual value is zero.
C11_ResidualOfSurvivingVintages ==
    YearRun =>
        IF yr.year = inputs.years
        THEN \/ yr.residualValue = SurvivingResidual(yr.updatedAssets, 1)
             \/ yr.residualValue = SurvivingResidual(yr.updatedAssets, 0)
        ELSE yr.residualValue = Zero

\* What the code adds instead: the residual value of every vintage ever
\* created, in the final year only.
ResidualOfEveryVintage ==
    YearRun =>
        yr.residualValue =
            IF yr.year = inputs.years
            THEN RSum([i \in 1..Len(yr.updatedAssets) |->
                         RMul(yr.updatedAssets[i].value, yr.updatedAssets[i].residualRate)])
            ELSE Zero


\* An iteration of the yearly loop is the step from the state where `year`
\* is the year about to run to the state where yr' holds its locals.
IsYearStep == pc = "loop" /\ year' = year + 1

\* min(10, project horizon), from the inputs.
TermEnd == IF inputs.years < MAX_LOAN_TERM THEN inputs.years ELSE MAX_LOAN_TERM

\* C12: in a year after min(10, horizon), and in a year that starts with a
\* remaining principal of at most 1, interest, principal repaid and debt
\* service are zero and the remaining principal is left as it was.
C12_NoServiceAfterTermOrPayoff ==
    [][ (IsYearStep /\ (year > TermEnd \/ RLe(remainingDebt, One))) =>
            /\ yr'.loan.interest = Zero
            /\ yr'.loan.principal = Zero
            /\ yr'.loan.debtService = Zero
            /\ remainingDebt' = remainingDebt ]_vars

\* A year beyond the loan term of a run that borrowed, with nothing paid
\* and the principal that the last year of the term left still in place.
C12_Witness ==
    /\ YearRun
    /\ yr.year > MAX_LOAN_TERM
    /\ RGt(setup.debt, One)
    /\ yr.loan.debtService = Zero /\ yr.loan.interest = Zero
    /\ remainingDebt = yr.loan.remainingDebt


\* The loan is serviced in the year about to run: the year is within the
\* term and more than 1 of principal is left.
Serviced == year <= TermEnd /\ RGt(remainingDebt, One)

\* C13: in every year in which the loan is serviced the payment is
\* min(scheduled payment, remaining principal + interest); in every year the
\* principal repaid is at most the remaining principal, and the remaining
\* principal is never negative.
C13_PaymentCappedDebtNonNegative ==
    /\ [](RGe(remainingDebt, Zero))
    /\ [][ IsYearStep =>
             /\ Serviced =>
                  yr'.loan.debtService =
                     RMin(setup.annualPMT,
                          RAdd(remainingDebt,
                               yuan(RMul(remainingDebt, Pct(inputs.loan_rate)))))
             /\ RLe(yr'.loan.principal, remainingDebt)
             /\ remainingDebt' = yuan(RSub(remainingDebt, yr'.loan.principal))
             /\ RGe(remainingDebt', Zero) ]_vars

\* A last installment: the scheduled payment is more than what is owed, the
\* whole remaining principal is repaid and nothing is left.
C13_Witness ==
    /\ YearRun
    /\ RGt(yr.loan.principal, Zero)
    /\ RLt(yr.loan.debtService, setup.annualPMT)
    /\ remainingDebt = Zero


\* C14: with debt ratio 0 every year record shows the marker '-' for the
\* DSCR and zero interest and principal, the year's interest, principal
\* and debt service are zero, and the DSCR is never the quotient by a zero
\* debt service: it is 999 whenever the debt service is zero.
C14_NoDebtNoDscr ==
    Running =>
        /\ yr # Null =>
              /\ IsFinite(yr.dscr)
              /\ yr.loan.debtService = Zero => yr.dscr = I(999)
        /\ inputs.debt_ratio = 0 =>
              /\ \A i \in 1..Len(rows) :
                    /\ rows[i].dscr = Dash
                    /\ rows[i].interest = Wan(Zero)
                    /\ rows[i].principal = Wan(Zero)
              /\ yr # Null =>
                    /\ yr.loan.interest = Zero
                    /\ yr.loan.principal = Zero
                    /\ yr.loan.debtService = Zero
              /\ pc = "done" => kpi.min_dscr = Zero

\* A finished run of the long horizon without debt.
C14_Witness ==
    /\ pc = "done"
    /\ inputs.debt_ratio = 0
    /\ Len(rows) = LongYears
    /\ rows[LongYears].dscr = Dash


\* The year lies in a configured preferential window.
InWindow(y) == inputs.tax_preferential_years > 0 /\ y <= inputs.tax_preferential_years

\* C15 (the claim as stated): in a year inside a configured preferential
\* window income tax is computed with the configured preferential rate,
\* whatever its value, 0% included; in every other year with the configured
\* standard rate.
C15_ConfiguredRateApplies ==
    YearRun =>
        LET rate == IF InWindow(yr.year) THEN Pct(inputs.tax_preferential_rate)
                    ELSE Pct(inputs.tax_rate)
        IN  /\ yr.currentTaxRate = rate
            /\ yr.taxes.incomeTax = yuan(RMul(yr.taxes.taxableIncome, rate))

\* What the code applies: inside the window a configured preferential rate
\* of 0 is replaced by 15%; outside it the configured standard rate, 0%
\* included.
RateWithFallback ==
    YearRun =>
        LET rate == IF InWindow(yr.year)
                    THEN (IF inputs.tax_preferential_rate = 0 THEN Pct(15)
                          ELSE Pct(inputs.tax_preferential_rate))
                    ELSE Pct(inputs.tax_rate)
        IN  /\ yr.currentTaxRate = rate
            /\ yr.taxes.incomeTax = yuan(RMul(yr.taxes.taxableIncome, rate))


\* The investment, debt and equity of the same inputs without the itemized
\* list: the lump sum capacity * capex.
LumpSum == Setup([inputs EXCEPT !.investmentItems = <<>>])

\* The run has an itemized investment whose amounts sum to the lump sum.
ItemizedRun ==
    /\ Running
    /\ Len(inputs.investmentItems) > 0
    /\ RSum([i \in 1..Len(inputs.investmentItems) |-> inputs.investmentItems[i].amount])
         = LumpSum.totalInvGross

\* C16 (the claim as stated): with an itemized list the gross investment is
\* the sum of the amounts and the net investment the sum of
\* amount / (1 + the item's own rate), a rate of 0% included; gross, debt
\* and equity are those of the lump-sum run with the same gross amount, and
\* net investment and input VAT differ from the lump-sum run's whenever an
\* item's rate differs from the project's VAT rate.
C16_ItemizedAtOwnRates ==
    ItemizedRun =>
        LET items == inputs.investmentItems
            net == RSum([i \in 1..Len(items) |->
                           RDiv(items[i].amount, RAdd(One, Pct(items[i].taxRate)))])
        IN  /\ setup.totalInvGross = RSum([i \in 1..Len(items) |-> items[i].amount])
            /\ setup.totalInvNet = net
            /\ setup.inputVAT = RSub(setup.totalInvGross, net)
            /\ setup.totalInvGross = LumpSum.totalInvGross
            /\ setup.debt = LumpSum.debt
            /\ setup.equity = LumpSum.equity
            /\ (\E i \in 1..Len(items) : items[i].taxRate # inputs.vat_rate) =>
                  /\ setup.totalInvNet # LumpSum.totalInvNet
                  /\ setup.inputVAT # LumpSum.inputVAT

\* What the code computes: the same, with an item rate of 0 replaced by 13%.
ItemizedWithFallback ==
    ItemizedRun =>
        LET items == inputs.investmentItems
            rate(i) == IF items[i].taxRate = 0 THEN 13 ELSE items[i].taxRate
            net == RSum([i \in 1..Len(items) |->
                           RDiv(items[i].amount, RAdd(One, Pct(rate(i))))])
        IN  /\ setup.totalInvGross = RSum([i \in 1..Len(items) |-> items[i].amount])
            /\ setup.totalInvNet = net
            /\ setup.inputVAT = RSub(setup.totalInvGross, net)
            /\ setup.totalInvGross = LumpSum.totalInvGross
            /\ setup.debt = LumpSum.debt
            /\ setup.equity = LumpSum.equity
            /\ (\E i \in 1..Len(items) : rate(i) # inputs.vat_rate) =>
                  /\ setup.totalInvNet # LumpSum.totalInvNet
                  /\ setup.inputVAT # LumpSum.inputVAT


\* The year's total tax: VAT payable + surcharge + income tax.
TotalTax == RAdd(RAdd(yr.taxes.vatPayable, yr.taxes.surcharge), yr.taxes.incomeTax)

\* Net operating cost + net charging cost of the year.
NetRunningCost == RAdd(yr.costs.opexNet, yr.costs.lossCostNet)

\* The entry of the cost series for the year just run.
CostEntry == costCF[yr.year + 1]

\* C17 (the claim as stated): the cost series entry of year y is net
\* operating cost + net charging cost + the year's total tax, minus the
\* residual value in the final year (to the cent; the augmentation year's
\* entry may also carry the net augmentation cost), and the series is kept
\* apart from the project cash flow.
C17_CostSeriesCarriesTax ==
    YearRun =>
        LET cost == RSub(RAdd(NetRunningCost, TotalTax), yr.residualValue)
        IN  /\ Len(costCF) = yr.year + 1
            /\ \/ CostEntry = yuan(cost)
               \/ CostEntry = yuan(RAdd(cost, yr.augNet))

\* What the code pushes: net operating cost + net charging cost, plus the
\* net augmentation cost in the augmentation year, minus the residual
\* value in the final year; no tax.
CostSeriesWithoutTax ==
    YearRun =>
        /\ Len(costCF) = yr.year + 1
        /\ CostEntry = yuan(RSub(RAdd(NetRunningCost, yr.augNet), yr.residualValue))
        /\ yr.yearCostLCOE = RSub(RAdd(NetRunningCost, yr.augNet), yr.residualValue)


\* calculateIRR has returned from a direct call.
IrrReturned == ret # Null /\ call # Null /\ call.fn = "calculateIRR"

\* The value the code returns for an empty series, and the patched hook for
\* a loop that did not converge.
IrrSentinel == Zero

\* C18 (the claim as stated): when the Newton loop stops on a derivative
\* below 0.0001 or after 100 passes without |NPV| < 0.01, calculateIRR
\* returns a sentinel and not the guess the loop held; a value other than
\* the sentinel is returned only if |NPV| < 0.01 at that rate.
C18_SentinelUnlessConverged ==
    IrrReturned =>
        LET run == IrrRun(call.cf)
        IN  /\ run.stop \in {"flat", "exhausted"} => ret.value # run.guess
            /\ ret.value # IrrSentinel =>
                  RLt(RAbs(calculateNPV(ret.value, call.cf)), R(1, 100))

\* What the code returns: the guess the loop held when it stopped, however
\* it stopped, and 0 for the empty series.
IrrReturnsLastGuess ==
    IrrReturned =>
        LET run == IrrRun(call.cf)
        IN  /\ ret.value = run.guess
            /\ run.stop = "converged" =>
                  RLt(RAbs(calculateNPV(ret.value, call.cf)), R(1, 100))
            /\ run.stop # "exhausted"


\* calculatePayback has returned from a direct call.
PaybackReturned == ret # Null /\ call # Null /\ call.fn = "calculatePayback"

\* The cumulative cash flow of cf through the entry of index i, counted
\* from 0 as the code counts; -1 gives the empty sum.
CumThrough(cf, i) == RSum([k \in 1..(i + 1) |-> cf[k]])

\* The indices, counted from 0, at which the cumulative cash flow is positive.
Crossings(cf) == { i \in 0..(Len(cf) - 1) : RGt(CumThrough(cf, i), Zero) }

\* The first of them.
FirstCrossing(cf) == CHOOSE i \in Crossings(cf) : \A j \in Crossings(cf) : i <= j

\* (i - 1) + |cumulative before i| / cashflow[i].
Interpolated(cf, i) ==
    RAdd(I(i - 1), RDiv(RAbs(CumThrough(cf, i - 1)), cf[i + 1]))

\* C19 (the claim as stated): for the first index i at which the cumulative
\* cash flow becomes positive calculatePayback returns
\* (i - 1) + |cumulative before i| / cashflow[i], a value in [i - 1, i];
\* when the cumulative cash flow never becomes positive it returns 99.
C19_InterpolatedAtEveryIndex ==
    PaybackReturned =>
        IF Crossings(call.cf) = {} THEN ret.value = I(99)
        ELSE LET i == FirstCrossing(call.cf)
             IN  /\ ret.value = Interpolated(call.cf, i)
                 /\ RLe(I(i - 1), ret.value) /\ RLe(ret.value, I(i))

\* C19 (amended): the same for a first crossing at an index i >= 1; when the
\* year-0 entry itself is positive (i = 0) the value returned is 0, not the
\* interpolated -1.
C19_InterpolatedFromYearOne ==
    PaybackReturned =>
        IF Crossings(call.cf) = {} THEN ret.value = I(99)
        ELSE LET i == FirstCrossing(call.cf)
             IN  IF i = 0 THEN ret.value = Zero
                 ELSE /\ ret.value = Interpolated(call.cf, i)
                      /\ RLe(I(i - 1), ret.value) /\ RLt(ret.value, I(i))

\* A series with a negative year that crosses in its last year, strictly
\* inside the year.
C19_Witness ==
    /\ PaybackReturned
    /\ Len(call.cf) = MaxPaybackYears + 1
    /\ \E k \in 2..Len(call.cf) : RLt(call.cf[k], Zero)
    /\ RGt(ret.value, I(MaxPaybackYears - 1))
    /\ RLt(ret.value, I(MaxPaybackYears))


MaxFactorDen == 4    \* scaling factors are k / MaxFactorDen, k in 1..MaxFactorDen

\* The factors k with 0 < k <= 1.
ScaleFactors == { R(k, MaxFactorDen) : k \in 1..MaxFactorDen }

\* cf with its year-0 entry kept and every later entry multiplied by k.
ScaleYears(cf, k) == [j \in 1..Len(cf) |-> IF j = 1 THEN cf[j] ELSE RMul(k, cf[j])]

\* C20: with the year-0 entry fixed, multiplying the cash flows of years
\* 1..N by a factor k, 0 < k <= 1, never lowers the value calculatePayback
\* returns (99 being the largest), negative years included.
C20_PaybackMonotoneInScale ==
    (PaybackReturned /\ Len(call.cf) >= 1) =>
        \A k \in ScaleFactors :
            RLe(ret.value, calculatePayback(ScaleYears(call.cf, k)))

\* A series with an outlay and a negative year whose payback a factor makes
\* strictly later and a smaller factor pushes to the sentinel.
C20_Witness ==
    /\ PaybackReturned /\ Len(call.cf) >= 2
    /\ RLt(call.cf[1], Zero)
    /\ \E j \in 2..Len(call.cf) : RLt(call.cf[j], Zero)
    /\ RLt(ret.value, I(99))
    /\ \E k \in ScaleFactors :
          LET scaled == calculatePayback(ScaleYears(call.cf, k))
          IN  RGt(scaled, ret.value) /\ RLt(scaled, I(99))
    /\ \E k \in ScaleFactors :
          calculatePayback(ScaleYears(call.cf, k)) = I(99)


\* calculateNPV has returned from a direct call.
NpvReturned == ret # Null /\ call # Null /\ call.fn = "calculateNPV"

\* The entries of cf added up from the left, nothing discounted.
RECURSIVE PlainSum(_)
PlainSum(cf) == IF cf = <<>> THEN Zero ELSE RAdd(PlainSum(SubSeq(cf, 1, Len(cf) - 1)), cf[Len(cf)])

\* C21: calculateNPV(0, cf) is the plain sum of the entries of cf, the
\* empty series included.
C21_NpvAtZeroIsSum ==
    (NpvReturned /\ call.rate = Zero) => ret.value = PlainSum(call.cf)

\* A full-length series with a negative year, at rate 0, whose sum differs
\* from its value at the other rates.
C21_Witness ==
    /\ NpvReturned /\ call.rate = Zero
    /\ Len(call.cf) = MaxPaybackYears + 1
    /\ \E k \in 2..Len(call.cf) : RLt(call.cf[k], Zero)
    /\ ret.value # Zero
    /\ \A r \in NpvRates \ {Zero} : calculateNPV(r, call.cf) # ret.value


\* The gross augmentation outlay of the year just computed: capacity times
\* the augmentation price in the augmentation year, nothing in other years.
AugOutlay ==
    IF yr.year = inputs.aug_year /\ inputs.aug_year > 0
    THEN RMul(setup.params.Wh, inputs.aug_price) ELSE Zero

\* The residual value received in the year just computed: only in the last.
FinalResidual == IF yr.year = setup.params.years THEN yr.residualValue ELSE Zero

\* Net profit + depreciation - principal repaid - augmentation + residual.
EquityFlow ==
    RAdd(RSub(RSub(RAdd(yr.taxes.netProfit, yr.annualDep), yr.loan.principal),
              AugOutlay),
         FinalResidual)

\* C22: the equity series starts with -equity; each year's equity cash flow
\* is net profit + depreciation - principal repaid, less the gross
\* augmentation outlay in the augmentation year, plus the residual value in
\* the final year (the series holds it to the cent, the record in units of
\* 10,000); the cumulative equity cash flow starts at -equity, grows by each
\* year's equity cash flow, and is what the year's record shows.
C22_EquityFlowsAndCumulative ==
    /\ [](Running =>
            /\ equityCF[1] = RNeg(setup.equity)
            /\ (year = 1 => cumEquityCF = RNeg(setup.equity))
            /\ (yr # Null =>
                  /\ yr.cf = EquityFlow
                  /\ equityCF[yr.year + 1] = yuan(EquityFlow)
                  /\ rows[yr.year].cf = Wan(EquityFlow)
                  /\ rows[yr.year].cum_cf = Wan(cumEquityCF)))
    /\ [][IsYearStep => cumEquityCF' = RAdd(cumEquityCF, yr'.cf)]_vars

\* A final year that is also the augmentation year, with principal repaid,
\* an augmentation paid and a residual value received.
C22_Witness ==
    /\ YearRun /\ yr.year = setup.params.years /\ yr.year >= 2
    /\ RGt(setup.equity, Zero)
    /\ RGt(yr.loan.principal, Zero)
    /\ RGt(AugOutlay, Zero)
    /\ RGt(FinalResidual, Zero)
    /\ cumEquityCF # RNeg(setup.equity)


\* C23: for every year of a run, with or without an augmentation and in the
\* years after it too, the start-of-year SOH and the average SOH that
\* createCalculationDetail rebuilds from the year index and the inputs are
\* the ones the simulation loop used for that year.
C23_DetailSohMatchesLoop ==
    YearRun =>
        /\ DetailYearStartSOH(yr.year, inputs) = yr.sohStart
        /\ DetailCurrentSOH(yr.year, inputs) = yr.physics.avgSOH

\* What holds: the two agree in runs without an augmentation within the
\* years computed so far, and in the augmentation year itself unless it is
\* year 1.
DetailSohMatchesUpToAugmentation ==
    (YearRun /\ (inputs.aug_year = 0 \/ yr.year <= inputs.aug_year)
             /\ ~(inputs.aug_year = 1 /\ yr.year = 1)) =>
        /\ DetailYearStartSOH(yr.year, inputs) = yr.sohStart
        /\ DetailCurrentSOH(yr.year, inputs) = yr.physics.avgSOH


\* The augmentation falls within the horizon.
AugWithinHorizon == inputs.aug_year >= 1 /\ inputs.aug_year <= inputs.years

\* The input VAT of the augmentation: its gross cost less its net value.
AugInputVat == RSub(RMul(setup.params.Wh, inputs.aug_price), AugNetValue)

\* The year in progress is the augmentation year: one vintage joins the
\* list, is depreciated within the year (its age is 1 at the year's end and
\* its yearly amount is part of the year's depreciation), and its input VAT
\* is in the credit the year's VAT settlement starts from.
AugYearStep ==
    /\ Len(assets') = Len(assets) + 1
    /\ assets'[Len(assets')] =
          [value |-> AugNetValue, life |-> inputs.aug_dep_years, age |-> 1,
           residualRate |-> setup.params.residualRate]
    /\ yr'.annualDep =
          RAdd(RMul(VintageAmount(setup.totalInvNet, setup.params.residualRate,
                                  inputs.dep_years),
                    I(InLife(year, 1, inputs.dep_years))),
               VintageAmount(AugNetValue, setup.params.residualRate,
                             inputs.aug_dep_years))
    /\ yr'.vatCredit = RAdd(remainingVAT, AugInputVat)
    /\ yr'.taxes.vatPayable =
          VATSettlement(yr'.revenue.outputVAT,
                        RAdd(yr'.costs.opexVAT, yr'.costs.lossVAT),
                        RAdd(remainingVAT, AugInputVat))[1]

\* Any other year: no vintage joins, the credit is handed on as it is, and
\* the year starts from the SOH carried over.
PlainYearStep ==
    /\ Len(assets') = Len(assets)
    /\ yr'.vatCredit = remainingVAT
    /\ yr'.augVAT = Zero
    /\ yr'.sohStart = currentSOH

\* C24: with 1 <= augmentation year <= horizon exactly one vintage is added
\* during the run, in the augmentation year and before that year's
\* depreciation, and its input VAT joins the VAT credit before that year's
\* VAT is settled; with an augmentation year of 0 or beyond the horizon no
\* vintage and no VAT credit is added and the SOH is never reset.
C24_OneVintageInAugYear ==
    /\ [](Running =>
            Len(assets) = (IF inputs.aug_year >= 1 /\ inputs.aug_year < year
                           THEN 2 ELSE 1))
    /\ [](pc = "done" => Len(assets) = (IF AugWithinHorizon THEN 2 ELSE 1))
    /\ [][IsYearStep =>
            IF year = inputs.aug_year THEN AugYearStep ELSE PlainYearStep]_vars

\* A finished run whose augmentation, in year 2 or later and with VAT to
\* credit, added its vintage.
C24_Witness ==
    /\ pc = "done" /\ AugWithinHorizon /\ inputs.aug_year >= 2
    /\ RGt(AugInputVat, Zero)
    /\ Len(assets) = 2 /\ assets[2].age = inputs.years - inputs.aug_year + 1

\* A finished run whose augmentation year lies beyond the horizon.
AugBeyondHorizonRun ==
    /\ pc = "done" /\ inputs.aug_year > inputs.years /\ inputs.years >= 2
    /\ Len(assets) = 1


\* EBIT - interest - surcharge of the year just computed.
PreTaxProfit == RSub(RSub(yr.taxes.ebit, yr.loan.interest), yr.taxes.surcharge)

\* C25: in a year with EBIT - interest - surcharge <= 0 the taxable income
\* and the income tax are 0 and the net profit is EBIT - interest -
\* surcharge; the income tax is never negative; and each year's taxable
\* income is max(0, EBIT - interest - surcharge) of that year alone, so an
\* earlier loss does not lower it.
C25_LossYearsUntaxedNoCarryForward ==
    YearRun =>
        /\ RLe(PreTaxProfit, Zero) =>
              /\ yr.taxes.taxableIncome = Zero
              /\ yr.taxes.incomeTax = Zero
              /\ yr.taxes.netProfit = PreTaxProfit
        /\ RGe(yr.taxes.incomeTax, Zero)
        /\ yr.taxes.taxableIncome = RMax(Zero, PreTaxProfit)

\* A taxed year that follows years whose net profit adds up to a loss.
C25_Witness ==
    /\ YearRun /\ yr.year >= 2
    /\ RGt(yr.taxes.taxableIncome, Zero) /\ RGt(yr.taxes.incomeTax, Zero)
    /\ RLt(RSub(stats.total_net_profit, yr.taxes.netProfit), Zero)

\* A year that closes with a loss.
LossYear == YearRun /\ RLt(PreTaxProfit, Zero)


\* (net profit + depreciation + interest) / debt service of the year the
\* step computes.
ServiceCover ==
    RDiv(RAdd(RAdd(yr'.taxes.netProfit, yr'.annualDep), yr'.loan.interest),
         yr'.loan.debtService)

\* Some year computed so far had debt service: interest or principal paid.
ServicedSoFar == RGt(RAdd(stats.total_interest, stats.total_principal), Zero)

\* C26: the minimum DSCR is the smallest (net profit + depreciation +
\* interest) / debt service over the years with nonzero debt service: a
\* year with debt service lowers the running minimum to its own quotient
\* when that is smaller (and sets it when it is the first such year), a year
\* without debt service leaves it alone; the value reported is that
\* minimum, and 0 when no year had debt service.
C26_MinDscrOverServiceYears ==
    /\ [][IsYearStep =>
            IF yr'.loan.debtService # Zero
            THEN minDSCR' = (IF ServicedSoFar THEN RMin(minDSCR, ServiceCover)
                             ELSE ServiceCover)
            ELSE minDSCR' = minDSCR]_vars
    /\ [](pc = "done" =>
            kpi.min_dscr = (IF ServicedSoFar THEN minDSCR ELSE Zero))

\* What holds: the running minimum starts at 999 and only a quotient below
\* it replaces it, so a run whose every quotient is 999 or more reports 0
\* like a run without debt service.
MinDscrBelowSentinel ==
    /\ [][IsYearStep =>
            IF yr'.loan.debtService # Zero
            THEN minDSCR' = RMin(minDSCR, ServiceCover)
            ELSE minDSCR' = minDSCR]_vars
    /\ [](pc = "done" =>
            kpi.min_dscr = (IF minDSCR = I(999) THEN Zero ELSE minDSCR))


\* The years of the loan term have all been computed.
TermOver == Running /\ inputs.years >= 1 /\ year > TermEnd

LongTermRepaid ==
    /\ pc = "done" /\ inputs.years = LongYears
    /\ RGt(setup.debt, One) /\ RLe(remainingDebt, One)


MaxLcoeYears == 1    \* the horizons on which the LCOE quotient is evaluated

\* The LCOE a finished run reports is negative: there is generation, and
\* npvCost / npvGen rounds to a negative number of cents, which Math.round
\* does for a quotient below -0.005.
ReportedLcoeNegative ==
    /\ RGt(npvGen(generationCF), Zero)
    /\ RLt(RDiv(npvCost(costCF), npvGen(generationCF)), R(-1, 200))

\* C28: for inputs that pass validation, with non-negative prices, cost
\* rates and investment, the year-0 entry of the LCOE cost series is the
\* net investment as a cost, and the LCOE reported is not negative.
C28_LcoeNonNegative ==
    /\ Running => costCF[1] = setup.totalInvNet
    /\ (pc = "done" /\ inputs.years <= MaxLcoeYears) => ~ReportedLcoeNegative

\* What holds: the cost series starts with minus the net investment.
CostSeriesStartsWithNegatedInvestment ==
    Running => costCF[1] = RNeg(setup.totalInvNet)

\* A finished run with generation whose reported LCOE is negative.
NegativeLcoeRun ==
    /\ pc = "done" /\ inputs.years >= 1 /\ inputs.years <= MaxLcoeYears
    /\ RGt(setup.totalInvNet, Zero)
    /\ ReportedLcoeNegative


\* The step is a call of updateInput: the only operation after which the
\* hook is idle again.
IsUpdateStep == pc' = "idle"

\* C29: whatever calls of updateInput and calculate have been made, result
\* and kpi are both null or both set, and error is set only while both are
\* null; a call of updateInput changes at most one input, clears error and
\* leaves result and kpi as they were.
C29_HookStateConsistent ==
    /\ []((result = Null <=> kpi = Null)
          /\ (error # Null => (result = Null /\ kpi = Null)))
    /\ [][IsUpdateStep =>
            /\ \E key \in DOMAIN inputs :
                  \A k \in DOMAIN inputs \ {key} : inputs'[k] = inputs[k]
            /\ DOMAIN inputs' = DOMAIN inputs
            /\ error' = Null
            /\ result' = result /\ kpi' = kpi]_vars

\* After a finished run an input was changed: the hook is idle, the result
\* and the KPIs of the earlier run are still in place and no longer match
\* the horizon in the inputs, and no error is shown.
C29_Witness ==
    /\ pc = "idle" /\ error = Null
    /\ result # Null /\ kpi # Null
    /\ Len(result.rows) # inputs.years


\* The timer a call of the debounced function leaves pending.
PendingFor(c) == [id |-> c.n, due |-> c.at + wait, args |-> c.args]

\* The step is a call of the debounced function.
IsDebouncedCall == call' # call

\* C30: with immediate = false a call of the debounced function does not
\* invoke func and leaves exactly one timer pending, its own, due wait ms
\* later, so that no earlier pending invocation can fire; func is invoked
\* only by that timer, wait ms or more after the last call and with the
\* last call's arguments, after which nothing is pending (one invocation
\* per burst of calls); and once wait ms pass without a further call the
\* invocation does happen.
C30_DebounceFiresOnceAfterQuiet ==
    /\ [](~immediate =>
            /\ timers = {} \/ (call # Null /\ timers = {PendingFor(call)})
            /\ \A t \in timers : now <= t.due)
    /\ [][(~immediate /\ IsDebouncedCall) =>
            /\ invoked' = invoked
            /\ timers' = {PendingFor(call')}
            /\ call'.at = now]_vars
    /\ [][(~immediate /\ invoked' # invoked) =>
            /\ call # Null /\ timers = {PendingFor(call)}
            /\ now >= call.at + wait
            /\ invoked' = Append(invoked, [at |-> now, args |-> call.args])
            /\ timers' = {}]_vars
    /\ \A n \in 1..MaxTimers :
          (~immediate /\ call # Null /\ call.n = n)
             ~> \/ (call # Null /\ call.n > n)
                \/ /\ call # Null /\ call.n = n /\ timers = {}
                   /\ invoked # <<>>
                   /\ invoked[Len(invoked)] =
                         [at |-> call.at + wait, args |-> call.args]

\* A burst of three or more calls, the last with other arguments than the
\* first invocation would have had, answered by a single invocation wait
\* ms after the last call.
C30_Witness ==
    /\ ~immediate /\ call # Null /\ call.n >= 3
    /\ timers = {} /\ Len(invoked) = 1
    /\ invoked[1] = [at |-> call.at + wait, args |-> call.args]
    /\ call.at >= 2

=============================================================================
